---- MODULE Spec2Model ----
(***************************************************************************)
(* A model of the shortfactory video pipeline: the four video templates    *)
(* (templates/*.py), the caption layering of utils/text_effects.py, and    *)
(* the orchestrators that call them (factory_core/engine/video_engine.py,  *)
(* engines/video_engine.py, factory_core/editing/video_editor.py).         *)
(*                                                                         *)
(* Calls into the compositing library are modelled by their documented     *)
(* effect on the timeline: a derived clip keeps its duration, a            *)
(* concatenation plays its parts in order and lasts the sum of their       *)
(* durations, a composite lasts until the latest end among the layers      *)
(* that have one.  Concatenating an empty list raises.  Where a template   *)
(* passes a function as the transition of a concatenation, which the       *)
(* library documents as a clip, the call either raises or returns the      *)
(* plain concatenation: the model takes both outcomes.                     *)
(*                                                                         *)
(* Times are counted in ticks of half a second, so that the 0.5 s          *)
(* transition is one tick.                                                 *)
(***************************************************************************)
EXTENDS Integers, Sequences, FiniteSets, TLC

\* ------------------------------------------------------------------ bounds
MaxClips == 3
MaxCaptions == 2
MaxSentences == 2
MaxPlatforms == 2
MaxAssets == 3
MaxKeys == 2
MaxExpiry == 2
MaxIds == 2
MaxThreads == 3
MaxTime == 2
MaxCalls == 3

\* n seconds, in ticks
Sec(n) == 2 * n

ClipDurations == {Sec(2), Sec(3)}

Templates == {"Modern", "Minimal", "Dynamic", "AIDynamic"}

TextKeys == {"title", "captions", "intro", "main", "outro"}

\* AIDynamicTemplate.__init__: config.get('transition_duration', 0.5), in ticks
transition_duration == 1

VARIABLES
    tpl,          \* the template class whose apply_template runs
    clips,        \* the caller's clip list: clips[i] is the duration of clip i
    text_content, \* keys present, number of captions, number of main sentences
    pc,           \* position inside apply_template
    processed,    \* processed_clips (AIDynamic: intro, main sections, outro)
    final_clips,  \* AIDynamic's final_clips list
    video,        \* video / final_video
    onto,         \* duration of the video the captions were composited onto
    ops,          \* compositing calls performed so far, in order
    stages,       \* render stages passed so far, in order
    error,        \* the exception that ended the call, "none" otherwise
    \* VideoEngine.create_video (factory_core/engine/video_engine.py)
    e_script,     \* "str": a topic to generate from; "dict": a ready script
    e_platforms,  \* the platforms argument (<<>> stands for None)
    e_pc,         \* position inside create_video
    e_calls,      \* the stages started so far, in order
    e_failed,     \* the stage that raised, "none" otherwise
    e_writes,     \* write_videofile calls made on the rendered video
    e_closed,     \* whether the rendered video has been closed
    e_quality,    \* the quality argument
    e_settings,   \* the fps and bitrate of each write_videofile call made
    \* edit_video (engines/video_engine.py), compose_video
    \* (factory_core/editing/video_editor.py)
    d_fn,         \* which of the two runs
    d_videos,     \* number of video assets / video_clips paths
    d_audio,      \* a music asset (edit_video) / an audio_path (compose_video)
    d_pc,         \* position inside the call
    d_open,       \* file handles open now
    d_opened,     \* file handles the call has opened
    d_file,       \* the output file: "none", "partial" or "complete"
    d_result,     \* "running", "path", "none" (edit_video's None), "raised"
    \* the retry-decorated operations: ShortFactory.create_video
    \* (factory_core/factory.py), ModelManager.get_model and generate_text
    \* (factory_core/ai/model_manager.py)
    f_fn,         \* which of the three runs
    f_pc,         \* position inside the call
    f_attempt,    \* attempt_number of the retry wrapper
    f_calls,      \* the stage calls of create_video, the loads of get_model, in order
    f_failures,   \* attempts whose underlying work failed
    f_outcome,    \* how the body left the current attempt, and with what
    f_type,       \* get_model / generate_text: the model_type argument
    f_force,      \* get_model: the force_reload argument
    f_loaded,     \* names in loaded_models, as positions in their chain
    f_idx,        \* get_model: position of the for loop in the chain
    f_cached,     \* generate_text: whether cache holds the cache_key
    \* the static methods of TextEffects (utils/text_effects.py)
    u_fn,         \* which of them is called
    u_pc,         \* "start", "done"
    u_clip,       \* animate_text: the clip argument
    u_effect,     \* animate_text: the effect argument
    u_duration,   \* animate_text: the duration argument
    u_kwargs,     \* animate_text: the keyword arguments, as (name, value) pairs
    u_text,       \* create_caption: the text argument
    u_size,       \* create_caption: the size argument, (width, height)
    u_video,      \* add_captions_to_video: the video argument
    u_captions,   \* add_captions_to_video: the captions argument
    u_result,     \* what the call returned, or the exception it raised
    \* CacheDocument (factory_core/database/db_base.py), one thread
    c_fn,         \* the method called
    c_arg,        \* its key argument (delete_key, get_if_fresh)
    c_now,        \* time.time()
    c_exists,     \* whether the collection holds the document
    c_doc,        \* the stored document: the value under each key
    c_lock,       \* TinyMongoDocument._lock: "free" or the method holding it
    c_pc,         \* position inside the call
    c_snapshot,   \* clear_expired: doc, as find_one returned it
    c_idx,        \* clear_expired: position of the loop over doc.items()
    c_key,        \* the key delete_key was called with
    c_result,     \* get_if_fresh: what it returned, or the exception raised
    \* ContentDatabase (factory_core/database/content_db.py), one thread
    k_stored,     \* content_db.content: the content_type stored under each id
    k_cache,      \* cache_db.content: the ids that have a cache document
    k_next,       \* the next id uuid4 hands out
    k_made,       \* the content_type create_content was given for each id
    k_call,       \* the last call made, with its arguments and its result
    \* TinyMongoDocument.__init__ (factory_core/database/db_base.py), threads
    n_coll,       \* the collection: how many documents it holds with each _id
    n_before,     \* the collection before the first construction began
    n_lock,       \* TinyMongoDocument._lock: 0, or the thread that holds it
    n_thread,     \* each thread's construction: arguments, position, outcome
    \* ConfigManager (factory_core/config/config_manager.py)
    g_defaults,   \* self.defaults: the top-level dict; nested dicts by reference
    g_config,     \* self.config: the top-level dict; nested dicts by reference
    g_heap,       \* the nested dict objects, by reference
    g_original,   \* what self.defaults held, nested values included, after __init__
    g_file,       \* config.json as save() last wrote it
    g_call,       \* the last call made
    \* StyleManager.get_style_model (factory_core/ai/style_manager.py)
    s_style,      \* the style_type of the call
    s_force,      \* force_reload
    s_idx,        \* position of the loop over the chain of the style
    s_pc,         \* "idle", "loop", "returned"
    s_result,     \* what the call returned
    s_loaded,     \* self.loaded_models: for each model "absent", "model" or "None"
    \* VoiceModule.synthesize (factory_core/audio/voice_base.py), one module
    v_cache,      \* self.cache: what is stored under the cache key of the request
    v_files,      \* the file system: for each path "missing", "empty" or "audio"
    v_now,        \* time.time()
    v_calls,      \* how many calls of synthesize have been made
    v_call,       \* the last call of synthesize: arguments, what it did, outcome
    v_last        \* the path the last successful call with use_cache returned

tvars == <<tpl, clips, text_content, pc, processed, final_clips, video, onto,
           ops, stages, error>>

evars == <<e_script, e_platforms, e_pc, e_calls, e_failed, e_writes, e_closed,
           e_quality, e_settings>>

dvars == <<d_fn, d_videos, d_audio, d_pc, d_open, d_opened, d_file, d_result>>

fvars == <<f_fn, f_pc, f_attempt, f_calls, f_failures, f_outcome, f_type,
           f_force, f_loaded, f_idx, f_cached>>

\* the state of the parts added after the three render entry points
uvars == <<u_fn, u_pc, u_clip, u_effect, u_duration, u_kwargs, u_text, u_size,
           u_video, u_captions, u_result>>

cvars == <<c_fn, c_arg, c_now, c_exists, c_doc, c_lock, c_pc, c_snapshot,
           c_idx, c_key, c_result>>

kvars == <<k_stored, k_cache, k_next, k_made, k_call>>

nvars == <<n_coll, n_before, n_lock, n_thread>>

gvars == <<g_defaults, g_config, g_heap, g_original, g_file, g_call>>

svars == <<s_style, s_force, s_idx, s_pc, s_result, s_loaded>>

vvars == <<v_cache, v_files, v_now, v_calls, v_call, v_last>>

\* the parts added last, and for each of them the others
yvars == <<kvars, nvars, gvars, svars, vvars>>

old == <<tvars, evars, dvars, fvars, uvars, cvars>>

besides_k == <<old, nvars, gvars, svars, vvars>>

besides_n == <<old, kvars, gvars, svars, vvars>>

besides_g == <<old, kvars, nvars, svars, vvars>>

besides_s == <<old, kvars, nvars, gvars, vvars>>

besides_v == <<old, kvars, nvars, gvars, svars>>

xvars == <<fvars, uvars, cvars, yvars>>

vars == <<tvars, evars, dvars, xvars>>

\* ----------------------------------------------------------------- helpers
Max(a, b) == IF a >= b THEN a ELSE b

Min(a, b) == IF a <= b THEN a ELSE b

RECURSIVE SumDurations(_)
SumDurations(cs) ==
    IF cs = <<>> THEN 0 ELSE Head(cs).duration + SumDurations(Tail(cs))

RECURSIVE AllPlays(_)
AllPlays(cs) ==
    IF cs = <<>> THEN <<>> ELSE Head(cs).plays \o AllPlays(Tail(cs))

RECURSIVE AllLayers(_)
AllLayers(cs) ==
    IF cs = <<>> THEN <<>> ELSE Head(cs).layers \o AllLayers(Tail(cs))

RECURSIVE LatestEnd(_, _)
LatestEnd(d, ls) ==
    IF ls = <<>> THEN d
    ELSE LatestEnd(IF Head(ls).timed THEN Max(d, Head(ls).end) ELSE d, Tail(ls))

\* plays: the source clips shown, in order; layers: what is composited over
\* them; composites: the CompositeVideoClip objects wrapped around the
\* timeline; audio: the sound tracks the clip carries
NoVideo ==
    [plays |-> <<>>, duration |-> 0, layers |-> <<>>, composites |-> 0,
     audio |-> <<>>]

\* a source clip as the template receives it
SourceClip(i) ==
    [plays |-> <<i>>, duration |-> clips[i], layers |-> <<>>, composites |-> 0,
     audio |-> <<"source">>]

\* a layer without a duration of its own (ColorClip, TextClip as created)
Untimed(kind) == [kind |-> kind, start |-> 0, end |-> 0, timed |-> FALSE]

Timed(kind, s, e) == [kind |-> kind, start |-> s, end |-> e, timed |-> TRUE]

\* concatenate_videoclips(list): the parts in order, the durations added
concatenate_videoclips(cs) ==
    [plays |-> AllPlays(cs), duration |-> SumDurations(cs),
     layers |-> AllLayers(cs), composites |-> 0,
     audio |-> IF \E k \in DOMAIN cs : cs[k].audio # <<>>
               THEN <<"source">> ELSE <<>>]

\* CompositeVideoClip([base] + layers): lasts until the latest end
CompositeVideoClip(base, ls) ==
    [base EXCEPT !.layers = @ \o ls, !.duration = LatestEnd(@, ls),
                 !.composites = @ + 1]

\* clip.set_audio(audio): the clip's sound becomes the one track given
set_audio(v) == [v EXCEPT !.audio = <<"audio">>]

Captions(v) == SelectSeq(v.layers, LAMBDA l : l.kind = "caption")

Titles(v) == SelectSeq(v.layers, LAMBDA l : l.kind = "title")

Raise(e) ==
    /\ pc' = "raised"
    /\ error' = e

\* ------------------------------------------------------- text_effects.py
\* add_captions_to_video handing the video back when there is no caption
add_captions_to_videoShortCut(v, captions) ==
    IF captions = <<>> THEN v
    ELSE [v EXCEPT !.layers = @ \o [k \in 1..Len(captions) |->
                        Timed("caption", captions[k].start, captions[k].end)],
                   !.composites = @ + 1]

\* TextEffects.add_captions_to_video: one text clip per caption dict, timed
\* by set_start(start).set_end(end), layered over the video in list order
add_captions_to_video(v, captions) ==
    CompositeVideoClip(v,
        [k \in 1..Len(captions) |->
            Timed("caption", captions[k].start, captions[k].end)])

\* CaptionDicts with the slots counted from 1 instead of 0
CaptionDictsOffByOne(n) ==
    [k \in 1..n |-> [start |-> Sec(k * 3), end |-> Sec((k + 1) * 3)]]

\* the caption dicts the templates build: 'start': i * 3, 'end': (i + 1) * 3
CaptionDicts(n) ==
    [k \in 1..n |-> [start |-> Sec((k - 1) * 3), end |-> Sec(k * 3)]]

\* ------------------------------------------------------------- the inputs
TextContents ==
    { t \in [keys : SUBSET TextKeys, captions : 0..MaxCaptions,
             sentences : 1..MaxSentences] :
        /\ ("captions" \notin t.keys => t.captions = 0)
        /\ ("main" \notin t.keys => t.sentences = 1) }

ClipLists == UNION { [1..n -> ClipDurations] : n \in 0..MaxClips }

TInit ==
    /\ tpl \in Templates
    /\ clips \in ClipLists
    /\ text_content \in TextContents
    /\ pc = "start"
    /\ processed = <<>>
    /\ final_clips = <<>>
    /\ video = NoVideo
    /\ onto = 0
    /\ ops = <<>>
    /\ stages = <<"Created">>
    /\ error = "none"

\* ---------------------------------------------- the parts that do not run
TIdle ==
    /\ tpl = "Modern"
    /\ clips = <<>>
    /\ text_content = [keys |-> {}, captions |-> 0, sentences |-> 1]
    /\ pc = "idle"
    /\ processed = <<>>
    /\ final_clips = <<>>
    /\ video = NoVideo
    /\ onto = 0
    /\ ops = <<>>
    /\ stages = <<"Created">>
    /\ error = "none"

EIdle ==
    /\ e_script = "dict"
    /\ e_platforms = <<>>
    /\ e_pc = "idle"
    /\ e_calls = <<>>
    /\ e_failed = "none"
    /\ e_writes = 0
    /\ e_closed = FALSE
    /\ e_quality = "Standard"
    /\ e_settings = <<>>

DIdle ==
    /\ d_fn = "edit_video"
    /\ d_videos = 0
    /\ d_audio = FALSE
    /\ d_pc = "idle"
    /\ d_open = {}
    /\ d_opened = {}
    /\ d_file = "none"
    /\ d_result = "running"

Pending == [kind |-> "pending", value |-> "none"]

FIdle ==
    /\ f_fn = "create_video"
    /\ f_pc = "idle"
    /\ f_attempt = 0
    /\ f_calls = <<>>
    /\ f_failures = 0
    /\ f_outcome = Pending
    /\ f_type = "SCRIPT_GEN"
    /\ f_force = FALSE
    /\ f_loaded = {}
    /\ f_idx = 0
    /\ f_cached = FALSE

NoResult == [kind |-> "none"]

UIdle ==
    /\ u_fn = "animate_text"
    /\ u_pc = "idle"
    /\ u_clip = "title"
    /\ u_effect = "fade"
    /\ u_duration = Sec(3)
    /\ u_kwargs = {}
    /\ u_text = "text"
    /\ u_size = <<1080, 1920>>
    /\ u_video = NoVideo
    /\ u_captions = <<>>
    /\ u_result = NoResult

\* the keys a cache document may hold, in the order of doc.items()
Keys == [i \in 1..MaxKeys |-> i]

\* the value None, which delete_key stores under a key
None == [kind |-> "None", expiry |-> 0, timestamp |-> 0]

CIdle ==
    /\ c_fn = "clear_expired"
    /\ c_arg = 1
    /\ c_now = 0
    /\ c_exists = FALSE
    /\ c_doc = [k \in 1..MaxKeys |-> None]
    /\ c_lock = "free"
    /\ c_pc = "idle"
    /\ c_snapshot = [k \in 1..MaxKeys |-> None]
    /\ c_idx = 0
    /\ c_key = 0
    /\ c_result = "none"

NoCall == [op |-> "none", id |-> 0, type |-> "none", result |-> "none"]

KIdle ==
    /\ k_stored = [i \in 1..MaxIds |-> "absent"]
    /\ k_cache = {}
    /\ k_next = 0
    /\ k_made = [i \in 1..MaxIds |-> "never"]
    /\ k_call = NoCall

NIdle ==
    /\ n_coll = [i \in {"", "a"} |-> 0]
    /\ n_before = [i \in {"", "a"} |-> 0]
    /\ n_lock = 0
    /\ n_thread = [t \in 1..MaxThreads |->
                      [document_id |-> "", create |-> FALSE, pc |-> "idle",
                       result |-> "none"]]

GIdle ==
    /\ g_defaults = [output_dir |-> "output", video |-> "none", api |-> "none"]
    /\ g_config = g_defaults
    /\ g_heap = [d_video |-> [fps |-> 0], d_api |-> [pexels |-> ""],
                 u_video |-> [fps |-> 0], u_api |-> [pexels |-> ""]]
    /\ g_original = [output_dir |-> "output", video |-> [fps |-> 0],
                     api |-> [pexels |-> ""]]
    /\ g_file = "absent"
    /\ g_call = "none"

SIdle ==
    /\ s_style = "none"
    /\ s_force = FALSE
    /\ s_idx = 0
    /\ s_pc = "idle"
    /\ s_result = "none"
    /\ s_loaded = {}

VIdle ==
    /\ v_cache = [kind |-> "None", data |-> "none", expiry |-> 0, timestamp |-> 0]
    /\ v_files = [p \in {"generated/audio/key.mp3", "custom/out.mp3"} |-> "missing"]
    /\ v_now = 0
    /\ v_calls = 0
    /\ v_call = [text |-> "", voice_id |-> "", use_cache |-> FALSE,
                 read |-> FALSE, wrote |-> FALSE, generated |-> FALSE,
                 message |-> "none", outcome |-> "none"]
    /\ v_last = "none"

YIdle == KIdle /\ NIdle /\ GIdle /\ SIdle /\ VIdle

XIdle == FIdle /\ UIdle /\ CIdle /\ YIdle

\* append a stage unless it is the stage the render is already in
Enter(st, s) == IF st[Len(st)] = s THEN st ELSE Append(st, s)

\* --------------------------------------------------- modern_template.py
\* lines 26-38: resize every clip, fade in all but the first, fade out all
\* but the last
ModernPreprocess ==
    /\ tpl = "Modern" /\ pc = "start"
    /\ processed' = [i \in 1..Len(clips) |-> SourceClip(i)]
    /\ ops' = ops \o (IF clips = <<>> THEN <<>> ELSE <<"resize">>)
                  \o (IF Len(clips) > 1 THEN <<"fade">> ELSE <<>>)
    /\ stages' = Enter(stages, "Preprocessed")
    /\ pc' = "preprocessed"
    /\ UNCHANGED <<tpl, clips, text_content, final_clips, video, onto, error>>
    /\ UNCHANGED <<evars, dvars, xvars>>

\* ModernConcat that hands back an empty video for an empty list
ModernConcatEmptyVideo ==
    /\ tpl = "Modern" /\ pc = "preprocessed"
    /\ video' = concatenate_videoclips(processed)
    /\ ops' = Append(ops, "concatenate")
    /\ stages' = Enter(stages, "Transitioned")
    /\ pc' = "concatenated"
    /\ UNCHANGED <<tpl, clips, text_content, processed, final_clips, onto, error>>
    /\ UNCHANGED <<evars, dvars, xvars>>

\* line 41: concatenate_videoclips(processed_clips); the library sizes the
\* result by the largest clip and raises when there is none
ModernConcat ==
    /\ tpl = "Modern" /\ pc = "preprocessed"
    /\ IF processed = <<>>
       THEN Raise("ValueError") /\ UNCHANGED <<video, ops, stages>>
       ELSE /\ video' = concatenate_videoclips(processed)
            /\ ops' = Append(ops, "concatenate")
            /\ stages' = Enter(stages, "Transitioned")
            /\ pc' = "concatenated"
            /\ UNCHANGED error
    /\ UNCHANGED <<tpl, clips, text_content, processed, final_clips, onto>>
    /\ UNCHANGED <<evars, dvars, xvars>>

\* lines 44-60: the title, 3.0 s long, when text_content has one
ModernTitle ==
    /\ tpl = "Modern" /\ pc = "concatenated"
    /\ IF "title" \in text_content.keys
       THEN /\ video' = CompositeVideoClip(video, <<Timed("title", 0, Sec(3))>>)
            /\ ops' = Append(ops, "create_title")
       ELSE UNCHANGED <<video, ops>>
    /\ stages' = Enter(stages, "TextComposited")
    /\ pc' = "titled"
    /\ UNCHANGED <<tpl, clips, text_content, processed, final_clips, onto, error>>
    /\ UNCHANGED <<evars, dvars, xvars>>

\* lines 63-80: the captions, through add_captions_to_video
ModernCaptions ==
    /\ tpl = "Modern" /\ pc = "titled"
    /\ IF "captions" \in text_content.keys
       THEN /\ video' = add_captions_to_video(video,
                            CaptionDicts(text_content.captions))
            /\ onto' = video.duration
            /\ ops' = Append(ops, "add_captions")
       ELSE UNCHANGED <<video, onto, ops>>
    /\ stages' = Enter(stages, "TextComposited")
    /\ pc' = "captioned"
    /\ UNCHANGED <<tpl, clips, text_content, processed, final_clips, error>>
    /\ UNCHANGED <<evars, dvars, xvars>>

\* lines 83-85: set_audio, return
ModernAudio ==
    /\ tpl = "Modern" /\ pc = "captioned"
    /\ video' = set_audio(video)
    /\ ops' = Append(ops, "set_audio")
    /\ stages' = Append(Enter(stages, "AudioAttached"), "Done")
    /\ pc' = "done"
    /\ UNCHANGED <<tpl, clips, text_content, processed, final_clips, onto, error>>
    /\ UNCHANGED <<evars, dvars, xvars>>

\* -------------------------------------------------- minimal_template.py
\* lines 18-24: resize and centre every clip
MinimalPreprocess ==
    /\ tpl = "Minimal" /\ pc = "start"
    /\ processed' = [i \in 1..Len(clips) |-> SourceClip(i)]
    /\ ops' = ops \o (IF clips = <<>> THEN <<>> ELSE <<"resize">>)
    /\ stages' = Enter(stages, "Preprocessed")
    /\ pc' = "preprocessed"
    /\ UNCHANGED <<tpl, clips, text_content, final_clips, video, onto, error>>
    /\ UNCHANGED <<evars, dvars, xvars>>

\* lines 26-31: concatenate_videoclips(processed_clips, method="compose",
\* transition=<function>); the library documents transition as a clip to
\* play between the parts, so with a function the call returns the plain
\* concatenation or raises; with no clip at all it raises
MinimalConcat ==
    /\ tpl = "Minimal" /\ pc = "preprocessed"
    /\ \/ /\ processed # <<>>
          /\ video' = concatenate_videoclips(processed)
          /\ ops' = Append(ops, "concatenate")
          /\ stages' = Enter(stages, "Transitioned")
          /\ pc' = "concatenated"
          /\ UNCHANGED error
       \/ /\ Raise("TypeError")
          /\ UNCHANGED <<video, ops, stages>>
    /\ UNCHANGED <<tpl, clips, text_content, processed, final_clips, onto>>
    /\ UNCHANGED <<evars, dvars, xvars>>

\* MinimalTitle with the 3.0 s of the other templates
MinimalTitleThreeSeconds ==
    /\ tpl = "Minimal" /\ pc = "concatenated"
    /\ IF "title" \in text_content.keys
       THEN /\ video' = CompositeVideoClip(video, <<Timed("title", 0, Sec(3))>>)
            /\ ops' = Append(ops, "create_title")
       ELSE UNCHANGED <<video, ops>>
    /\ stages' = Enter(stages, "TextComposited")
    /\ pc' = "titled"
    /\ UNCHANGED <<tpl, clips, text_content, processed, final_clips, onto, error>>
    /\ UNCHANGED <<evars, dvars, xvars>>

\* lines 33-51: the title, 2.0 s long, when text_content has one. The fade
\* is applied to the text clip before set_duration gives it a duration, and
\* the library's fadeout reads the clip's duration: the call composites the
\* title or raises
MinimalTitle ==
    /\ tpl = "Minimal" /\ pc = "concatenated"
    /\ IF "title" \in text_content.keys
       THEN \/ /\ video' = CompositeVideoClip(video,
                                <<Timed("title", 0, Sec(2))>>)
               /\ ops' = Append(ops, "create_title")
               /\ stages' = Enter(stages, "TextComposited")
               /\ pc' = "titled"
               /\ UNCHANGED error
            \/ /\ Raise("ValueError")
               /\ UNCHANGED <<video, ops, stages>>
       ELSE /\ stages' = Enter(stages, "TextComposited")
            /\ pc' = "titled"
            /\ UNCHANGED <<video, ops, error>>
    /\ UNCHANGED <<tpl, clips, text_content, processed, final_clips, onto>>
    /\ UNCHANGED <<evars, dvars, xvars>>

\* lines 53-73: the captions, through add_captions_to_video
MinimalCaptions ==
    /\ tpl = "Minimal" /\ pc = "titled"
    /\ IF "captions" \in text_content.keys
       THEN /\ video' = add_captions_to_video(video,
                            CaptionDicts(text_content.captions))
            /\ onto' = video.duration
            /\ ops' = Append(ops, "add_captions")
       ELSE UNCHANGED <<video, onto, ops>>
    /\ stages' = Enter(stages, "TextComposited")
    /\ pc' = "captioned"
    /\ UNCHANGED <<tpl, clips, text_content, processed, final_clips, error>>
    /\ UNCHANGED <<evars, dvars, xvars>>

\* MinimalOverlay with the overlay left out
MinimalOverlayForgotten ==
    /\ tpl = "Minimal" /\ pc = "captioned"
    /\ pc' = "overlaid"
    /\ UNCHANGED <<tpl, clips, text_content, processed, final_clips, video,
                   onto, ops, stages, error>>
    /\ UNCHANGED <<evars, dvars, xvars>>

\* lines 75-85: the gradient overlay, a layer without a duration
MinimalOverlay ==
    /\ tpl = "Minimal" /\ pc = "captioned"
    /\ video' = CompositeVideoClip(video, <<Untimed("overlay")>>)
    /\ ops' = Append(ops, "create_overlay")
    /\ stages' = Enter(stages, "Overlaid")
    /\ pc' = "overlaid"
    /\ UNCHANGED <<tpl, clips, text_content, processed, final_clips, onto, error>>
    /\ UNCHANGED <<evars, dvars, xvars>>

\* lines 87-90: set_audio, return
MinimalAudio ==
    /\ tpl = "Minimal" /\ pc = "overlaid"
    /\ video' = set_audio(video)
    /\ ops' = Append(ops, "set_audio")
    /\ stages' = Append(Enter(stages, "AudioAttached"), "Done")
    /\ pc' = "done"
    /\ UNCHANGED <<tpl, clips, text_content, processed, final_clips, onto, error>>
    /\ UNCHANGED <<evars, dvars, xvars>>

\* -------------------------------------------------- dynamic_template.py
\* lines 19-39: resize with overscan, moving position, zoom, rotation of
\* every other clip
DynamicPreprocess ==
    /\ tpl = "Dynamic" /\ pc = "start"
    /\ processed' = [i \in 1..Len(clips) |-> SourceClip(i)]
    /\ ops' = ops \o (IF clips = <<>> THEN <<>> ELSE <<"resize">>)
    /\ stages' = Enter(stages, "Preprocessed")
    /\ pc' = "preprocessed"
    /\ UNCHANGED <<tpl, clips, text_content, final_clips, video, onto, error>>
    /\ UNCHANGED <<evars, dvars, xvars>>

\* lines 41-46: concatenate_videoclips with a function as transition
DynamicConcat ==
    /\ tpl = "Dynamic" /\ pc = "preprocessed"
    /\ \/ /\ processed # <<>>
          /\ video' = concatenate_videoclips(processed)
          /\ ops' = Append(ops, "concatenate")
          /\ stages' = Enter(stages, "Transitioned")
          /\ pc' = "concatenated"
          /\ UNCHANGED error
       \/ /\ Raise("TypeError")
          /\ UNCHANGED <<video, ops, stages>>
    /\ UNCHANGED <<tpl, clips, text_content, processed, final_clips, onto>>
    /\ UNCHANGED <<evars, dvars, xvars>>

\* lines 48-66: the title, 3.0 s long, when text_content has one
DynamicTitle ==
    /\ tpl = "Dynamic" /\ pc = "concatenated"
    /\ IF "title" \in text_content.keys
       THEN /\ video' = CompositeVideoClip(video, <<Timed("title", 0, Sec(3))>>)
            /\ ops' = Append(ops, "create_title")
       ELSE UNCHANGED <<video, ops>>
    /\ stages' = Enter(stages, "TextComposited")
    /\ pc' = "titled"
    /\ UNCHANGED <<tpl, clips, text_content, processed, final_clips, onto, error>>
    /\ UNCHANGED <<evars, dvars, xvars>>

\* lines 72-99: one animated caption clip per caption, timed by
\* set_start(i * 3).set_end((i + 1) * 3)
DynamicCaptionClips(n) ==
    [k \in 1..n |-> Timed("caption", Sec((k - 1) * 3), Sec(k * 3))]

\* lines 68-101: the captions, composited directly
DynamicCaptions ==
    /\ tpl = "Dynamic" /\ pc = "titled"
    /\ IF "captions" \in text_content.keys
       THEN /\ video' = CompositeVideoClip(video,
                            DynamicCaptionClips(text_content.captions))
            /\ onto' = video.duration
            /\ ops' = Append(ops, "add_captions")
       ELSE UNCHANGED <<video, onto, ops>>
    /\ stages' = Enter(stages, "TextComposited")
    /\ pc' = "captioned"
    /\ UNCHANGED <<tpl, clips, text_content, processed, final_clips, error>>
    /\ UNCHANGED <<evars, dvars, xvars>>

\* lines 103-113: the vignette overlay
DynamicOverlay ==
    /\ tpl = "Dynamic" /\ pc = "captioned"
    /\ video' = CompositeVideoClip(video, <<Untimed("overlay")>>)
    /\ ops' = Append(ops, "create_overlay")
    /\ stages' = Enter(stages, "Overlaid")
    /\ pc' = "overlaid"
    /\ UNCHANGED <<tpl, clips, text_content, processed, final_clips, onto, error>>
    /\ UNCHANGED <<evars, dvars, xvars>>

\* lines 115-118: set_audio, return
DynamicAudio ==
    /\ tpl = "Dynamic" /\ pc = "overlaid"
    /\ video' = set_audio(video)
    /\ ops' = Append(ops, "set_audio")
    /\ stages' = Append(Enter(stages, "AudioAttached"), "Done")
    /\ pc' = "done"
    /\ UNCHANGED <<tpl, clips, text_content, processed, final_clips, onto, error>>
    /\ UNCHANGED <<evars, dvars, xvars>>

\* ----------------------------------------------- ai_dynamic_template.py
\* create_section: the clip with an overlay and an (untimed) text clip
create_section(i) ==
    CompositeVideoClip(SourceClip(i),
        <<Untimed("overlay"), Untimed("section_text")>>)

\* apply_ai_transition: clip1 cut short by the transition, the transition
\* composite, then clip2
apply_ai_transition(clip1, clip2) ==
    concatenate_videoclips(<<
        [clip1 EXCEPT !.duration = clip1.duration - transition_duration],
        [NoVideo EXCEPT !.duration = transition_duration],
        clip2 >>)

\* lines 116-121: intro = create_section(clips[0], text_content['intro'])
AIIntro ==
    /\ tpl = "AIDynamic" /\ pc = "start"
    /\ IF clips = <<>>
       THEN Raise("IndexError") /\ UNCHANGED <<processed, ops, stages>>
       ELSE IF "intro" \notin text_content.keys
       THEN Raise("KeyError") /\ UNCHANGED <<processed, ops, stages>>
       ELSE /\ processed' = <<create_section(1)>>
            /\ ops' = ops \o <<"create_title", "create_overlay">>
            /\ stages' = Enter(Enter(stages, "TextComposited"), "Overlaid")
            /\ pc' = "intro"
            /\ UNCHANGED error
    /\ UNCHANGED <<tpl, clips, text_content, final_clips, video, onto>>
    /\ UNCHANGED <<evars, dvars, xvars>>

\* lines 123-133: one section per pair of zip(clips[1:-1], main_sentences)
AIMain ==
    /\ tpl = "AIDynamic" /\ pc = "intro"
    /\ IF "main" \notin text_content.keys
       THEN Raise("KeyError") /\ UNCHANGED <<processed, ops, stages>>
       ELSE LET n == Min(Max(Len(clips) - 2, 0), text_content.sentences)
            IN  /\ processed' = processed \o
                                    [k \in 1..n |-> create_section(k + 1)]
                /\ ops' = ops \o (IF n = 0 THEN <<>>
                                  ELSE <<"create_caption", "create_overlay">>)
                /\ stages' = IF n = 0 THEN stages
                             ELSE Enter(Enter(stages, "TextComposited"),
                                        "Overlaid")
                /\ pc' = "main"
                /\ UNCHANGED error
    /\ UNCHANGED <<tpl, clips, text_content, final_clips, video, onto>>
    /\ UNCHANGED <<evars, dvars, xvars>>

\* AIOutro taking the last clip off the caller's list with clips.pop()
AIOutroPop ==
    /\ tpl = "AIDynamic" /\ pc = "main"
    /\ IF "outro" \notin text_content.keys
       THEN Raise("KeyError") /\ UNCHANGED <<clips, processed, ops, stages>>
       ELSE /\ processed' = Append(processed, create_section(Len(clips)))
            /\ clips' = SubSeq(clips, 1, Len(clips) - 1)
            /\ ops' = ops \o <<"create_title", "create_overlay">>
            /\ stages' = Enter(Enter(stages, "TextComposited"), "Overlaid")
            /\ pc' = "outro"
            /\ UNCHANGED error
    /\ UNCHANGED <<tpl, text_content, final_clips, video, onto>>
    /\ UNCHANGED <<evars, dvars, xvars>>

\* lines 135-141: outro = create_section(clips[-1], text_content['outro'])
AIOutro ==
    /\ tpl = "AIDynamic" /\ pc = "main"
    /\ IF "outro" \notin text_content.keys
       THEN Raise("KeyError") /\ UNCHANGED <<processed, ops, stages>>
       ELSE /\ processed' = Append(processed, create_section(Len(clips)))
            /\ ops' = ops \o <<"create_title", "create_overlay">>
            /\ stages' = Enter(Enter(stages, "TextComposited"), "Overlaid")
            /\ pc' = "outro"
            /\ UNCHANGED error
    /\ UNCHANGED <<tpl, clips, text_content, final_clips, video, onto>>
    /\ UNCHANGED <<evars, dvars, xvars>>

\* lines 145-154: final_clips[-1] = apply_ai_transition(final_clips[-1], clip)
\* for every main section in turn
RECURSIVE ChainMain(_, _)
ChainMain(last, main) ==
    IF main = <<>> THEN last
    ELSE ChainMain(apply_ai_transition(last, Head(main)), Tail(main))

\* lines 143-162: final_clips = [intro], the main loop, then
\* final_clips.append(apply_ai_transition(final_clips[-1], outro))
AICombine ==
    /\ tpl = "AIDynamic" /\ pc = "outro"
    /\ LET intro == processed[1]
           main == SubSeq(processed, 2, Len(processed) - 1)
           outro == processed[Len(processed)]
           last == ChainMain(intro, main)
       IN  final_clips' = <<last, apply_ai_transition(last, outro)>>
    /\ ops' = Append(ops, "apply_ai_transition")
    /\ stages' = Enter(stages, "Transitioned")
    /\ pc' = "combined"
    /\ UNCHANGED <<tpl, clips, text_content, processed, video, onto, error>>
    /\ UNCHANGED <<evars, dvars, xvars>>

\* line 165: concatenate_videoclips(final_clips)
AIConcat ==
    /\ tpl = "AIDynamic" /\ pc = "combined"
    /\ video' = concatenate_videoclips(final_clips)
    /\ ops' = Append(ops, "concatenate")
    /\ stages' = Enter(stages, "Transitioned")
    /\ pc' = "concatenated"
    /\ UNCHANGED <<tpl, clips, text_content, processed, final_clips, onto, error>>
    /\ UNCHANGED <<evars, dvars, xvars>>

\* AIAudio mixing the audio argument into the sound the clips carry
AIAudioMixed ==
    /\ tpl = "AIDynamic" /\ pc = "concatenated"
    /\ video' = [video EXCEPT !.audio = @ \o <<"audio">>]
    /\ ops' = Append(ops, "set_audio")
    /\ stages' = Append(Enter(stages, "AudioAttached"), "Done")
    /\ pc' = "done"
    /\ UNCHANGED <<tpl, clips, text_content, processed, final_clips, onto, error>>
    /\ UNCHANGED <<evars, dvars, xvars>>

\* lines 168-170: set_audio, return
AIAudio ==
    /\ tpl = "AIDynamic" /\ pc = "concatenated"
    /\ video' = set_audio(video)
    /\ ops' = Append(ops, "set_audio")
    /\ stages' = Append(Enter(stages, "AudioAttached"), "Done")
    /\ pc' = "done"
    /\ UNCHANGED <<tpl, clips, text_content, processed, final_clips, onto, error>>
    /\ UNCHANGED <<evars, dvars, xvars>>

TNext ==
    \/ ModernPreprocess
    \/ ModernConcat
    \/ ModernTitle
    \/ ModernCaptions
    \/ ModernAudio
    \/ MinimalPreprocess
    \/ MinimalConcat
    \/ MinimalTitle
    \/ MinimalCaptions
    \/ MinimalOverlay
    \/ MinimalAudio
    \/ DynamicPreprocess
    \/ DynamicConcat
    \/ DynamicTitle
    \/ DynamicCaptions
    \/ DynamicOverlay
    \/ DynamicAudio
    \/ AIIntro
    \/ AIMain
    \/ AIOutro
    \/ AICombine
    \/ AIConcat
    \/ AIAudio

TemplateInit == TInit /\ EIdle /\ DIdle /\ XIdle

TemplateSpec == TemplateInit /\ [][TNext]_vars

\* ------------------------------- factory_core/engine/video_engine.py
Platforms == {"YouTube Shorts", "Instagram Reels", "TikTok"}

PlatformLists == UNION { [1..n -> Platforms] : n \in 0..MaxPlatforms }

\* the quality_settings table of _export_for_platform; bitrates in kbit/s
quality_settings ==
    [q \in {"Draft", "Standard", "High Quality"} |->
        CASE q = "Draft" -> [bitrate |-> 1000, fps |-> 24]
          [] q = "Standard" -> [bitrate |-> 2500, fps |-> 30]
          [] q = "High Quality" -> [bitrate |-> 5000, fps |-> 60]]

\* the presets a caller may name: those of the docstring, and "High"
Qualities == DOMAIN quality_settings \cup {"High"}

EInit ==
    /\ e_script \in {"str", "dict"}
    /\ e_platforms \in PlatformLists
    /\ e_pc = "start"
    /\ e_calls = <<>>
    /\ e_failed = "none"
    /\ e_writes = 0
    /\ e_closed = FALSE
    /\ e_quality \in Qualities
    /\ e_settings = <<>>

\* lines 93-95: the handler logs the error and raises it again
EFail(stage) ==
    /\ e_pc' = "raised"
    /\ e_failed' = stage

\* lines 45-52: build the template; generate the script when given a string
GenerateScript ==
    /\ e_pc = "start"
    /\ IF e_script = "str"
       THEN /\ e_calls' = Append(e_calls, "generate_script")
            /\ \/ e_pc' = "scripted" /\ UNCHANGED e_failed
               \/ EFail("generate_script")
       ELSE /\ e_pc' = "scripted"
            /\ UNCHANGED <<e_calls, e_failed>>
    /\ UNCHANGED <<e_script, e_platforms, e_writes, e_closed, e_quality,
                   e_settings>>
    /\ UNCHANGED <<tvars, dvars, xvars>>

\* lines 54-59: script_generator.get_keywords(script_dict)
GetKeywords ==
    /\ e_pc = "scripted"
    /\ e_calls' = Append(e_calls, "get_keywords")
    /\ \/ e_pc' = "keywords" /\ UNCHANGED e_failed
       \/ EFail("get_keywords")
    /\ UNCHANGED <<e_script, e_platforms, e_writes, e_closed, e_quality,
                   e_settings>>
    /\ UNCHANGED <<tvars, dvars, xvars>>

\* SourceClips with a failure that is logged and passed over
SourceClipsSwallowed ==
    /\ e_pc = "keywords"
    /\ e_calls' = Append(e_calls, "source_video_clips")
    /\ \/ e_pc' = "assets" /\ UNCHANGED e_failed
       \/ e_pc' = "assets" /\ e_failed' = "source_video_clips"
    /\ UNCHANGED <<e_script, e_platforms, e_writes, e_closed, e_quality,
                   e_settings>>
    /\ UNCHANGED <<tvars, dvars, xvars>>

\* lines 60-64: asset_manager.source_video_clips(keywords, ...)
SourceClips ==
    /\ e_pc = "keywords"
    /\ e_calls' = Append(e_calls, "source_video_clips")
    /\ \/ e_pc' = "assets" /\ UNCHANGED e_failed
       \/ EFail("source_video_clips")
    /\ UNCHANGED <<e_script, e_platforms, e_writes, e_closed, e_quality,
                   e_settings>>
    /\ UNCHANGED <<tvars, dvars, xvars>>

\* lines 66-71: music_manager.find_music(...)
FindMusic ==
    /\ e_pc = "assets"
    /\ e_calls' = Append(e_calls, "find_music")
    /\ \/ e_pc' = "music" /\ UNCHANGED e_failed
       \/ EFail("find_music")
    /\ UNCHANGED <<e_script, e_platforms, e_writes, e_closed, e_quality,
                   e_settings>>
    /\ UNCHANGED <<tvars, dvars, xvars>>

\* lines 73-79: video_template.apply_template(clips, audio, text_content)
ApplyTemplate ==
    /\ e_pc = "music"
    /\ e_calls' = Append(e_calls, "apply_template")
    /\ \/ e_pc' = "rendered" /\ UNCHANGED e_failed
       \/ EFail("apply_template")
    /\ UNCHANGED <<e_script, e_platforms, e_writes, e_closed, e_quality,
                   e_settings>>
    /\ UNCHANGED <<tvars, dvars, xvars>>

\* the platforms the loop of line 83 goes through
ExportPlatforms ==
    IF e_platforms = <<>> THEN <<"YouTube Shorts">> ELSE e_platforms

\* lines 81-89 and _export_for_platform, lines 97-142, for the first
\* platform: the output path of line 129 calls time.time(), and the module
\* never imports time, so the call raises NameError before line 134 writes
ExportForPlatform ==
    /\ e_pc = "rendered"
    /\ Head(ExportPlatforms) \in Platforms
    /\ e_calls' = Append(e_calls, "export")
    /\ EFail("export")
    /\ UNCHANGED <<e_script, e_platforms, e_writes, e_closed, e_quality,
                   e_settings>>
    /\ UNCHANGED <<tvars, dvars, xvars>>

ENext ==
    \/ GenerateScript
    \/ GetKeywords
    \/ SourceClips
    \/ FindMusic
    \/ ApplyTemplate
    \/ ExportForPlatform

EngineInit == TIdle /\ EInit /\ DIdle /\ XIdle

EngineSpec == EngineInit /\ [][ENext]_vars

\* ----- engines/video_engine.py, factory_core/editing/video_editor.py
VideoHandles(n) == { <<"video", i>> : i \in 1..n }

DInit ==
    /\ d_fn \in {"edit_video", "compose_video"}
    /\ d_videos \in 0..MaxAssets
    /\ d_audio \in BOOLEAN
    /\ d_pc = "start"
    /\ d_open = {}
    /\ d_opened = {}
    /\ d_file = "none"
    /\ d_result = "running"

\* edit_video, lines 153-155: print the error, return None;
\* compose_video has no handler: the exception leaves the call
DFail ==
    /\ d_pc' = "ended"
    /\ d_result' = IF d_fn = "edit_video" THEN "none" ELSE "raised"

Open(hs) ==
    /\ d_open' = d_open \cup hs
    /\ d_opened' = d_opened \cup hs

\* edit_video lines 96-100, compose_video line 77: one VideoFileClip per
\* path, in a list comprehension; f is the path whose opening fails, 0 when
\* none does
LoadClips ==
    /\ d_pc = "start"
    /\ \E f \in 0..d_videos :
        IF f = 0
        THEN Open(VideoHandles(d_videos)) /\ d_pc' = "clips"
                /\ UNCHANGED d_result
        ELSE Open(VideoHandles(f - 1)) /\ DFail
    /\ UNCHANGED <<d_fn, d_videos, d_audio, d_file>>
    /\ UNCHANGED <<tvars, evars, xvars>>

\* the audio files edit_video opens, in order: the voiceover (line 103),
\* the music asset (line 107), the adjusted music (line 115)
EditAudioFiles ==
    <<<<"voiceover", 0>>>> \o
    (IF d_audio THEN << <<"music", 0>>, <<"music", 1>> >> ELSE <<>>)

\* edit_video lines 103-118: n of the audio files open before one fails
EditLoadAudio ==
    /\ d_fn = "edit_video" /\ d_pc = "clips"
    /\ \E n \in 0..Len(EditAudioFiles) :
        /\ Open({ EditAudioFiles[k] : k \in 1..n })
        /\ IF n = Len(EditAudioFiles)
           THEN d_pc' = "audio" /\ UNCHANGED d_result
           ELSE DFail
    /\ UNCHANGED <<d_fn, d_videos, d_audio, d_file>>
    /\ UNCHANGED <<tvars, evars, xvars>>

\* edit_video lines 121-135: ModernTemplate.apply_template, which raises on
\* an empty clip list
EditApplyTemplate ==
    /\ d_fn = "edit_video" /\ d_pc = "audio"
    /\ \/ d_videos > 0 /\ d_pc' = "rendered" /\ UNCHANGED d_result
       \/ DFail
    /\ UNCHANGED <<d_fn, d_videos, d_audio, d_open, d_opened, d_file>>
    /\ UNCHANGED <<tvars, evars, xvars>>

\* compose_video lines 80-92: transitions and concatenate_videoclips, which
\* cannot work on an empty list
ComposeConcat ==
    /\ d_fn = "compose_video" /\ d_pc = "clips"
    /\ \/ d_videos > 0 /\ d_pc' = "concatenated" /\ UNCHANGED d_result
       \/ d_videos = 0 /\ DFail
    /\ UNCHANGED <<d_fn, d_videos, d_audio, d_open, d_opened, d_file>>
    /\ UNCHANGED <<tvars, evars, xvars>>

\* compose_video lines 95-97: AudioFileClip(audio_path) when one is given
ComposeAudio ==
    /\ d_fn = "compose_video" /\ d_pc = "concatenated"
    /\ IF d_audio
       THEN \/ Open({<<"audio", 0>>}) /\ d_pc' = "audio" /\ UNCHANGED d_result
            \/ DFail /\ UNCHANGED <<d_open, d_opened>>
       ELSE d_pc' = "audio" /\ UNCHANGED <<d_open, d_opened, d_result>>
    /\ UNCHANGED <<d_fn, d_videos, d_audio, d_file>>
    /\ UNCHANGED <<tvars, evars, xvars>>

\* compose_video lines 100-128: the text overlays
ComposeText ==
    /\ d_fn = "compose_video" /\ d_pc = "audio"
    /\ \/ d_pc' = "rendered" /\ UNCHANGED d_result
       \/ DFail
    /\ UNCHANGED <<d_fn, d_videos, d_audio, d_open, d_opened, d_file>>
    /\ UNCHANGED <<tvars, evars, xvars>>

\* edit_video lines 138-144, compose_video lines 131-139: write_videofile
\* completes the file, or fails before creating it or part of the way
WriteFile ==
    /\ d_pc = "rendered"
    /\ \/ d_file' = "complete" /\ d_pc' = "written" /\ UNCHANGED d_result
       \/ d_file' \in {"none", "partial"} /\ DFail
    /\ UNCHANGED <<d_fn, d_videos, d_audio, d_open, d_opened>>
    /\ UNCHANGED <<tvars, evars, xvars>>

\* the audio reader the final video carries itself: the voiceover when
\* edit_video mixed no music in, the audio file of compose_video
CarriedAudio ==
    IF d_fn = "compose_video" THEN {<<"audio", 0>>} \cap d_open
    ELSE IF d_audio THEN {} ELSE {<<"voiceover", 0>>}

\* edit_video lines 147-151, compose_video lines 142-146: close the final
\* video, which may or may not close the audio reader it carries, then
\* close every video clip; return the path
Cleanup ==
    /\ d_pc = "written"
    /\ \E released \in {{}, CarriedAudio} :
        d_open' = (d_open \ released) \ VideoHandles(d_videos)
    /\ d_pc' = "ended"
    /\ d_result' = "path"
    /\ UNCHANGED <<d_fn, d_videos, d_audio, d_opened, d_file>>
    /\ UNCHANGED <<tvars, evars, xvars>>

DNext ==
    \/ LoadClips
    \/ EditLoadAudio
    \/ EditApplyTemplate
    \/ ComposeConcat
    \/ ComposeAudio
    \/ ComposeText
    \/ WriteFile
    \/ Cleanup

EditInit == TIdle /\ EIdle /\ DInit /\ XIdle

EditSpec == EditInit /\ [][DNext]_vars

\* ----------- factory_core/factory.py, factory_core/ai/model_manager.py
\* stop=stop_after_attempt(3)
stop_after_attempt == 3

FunctionsWithRetry == {"create_video", "generate_text", "get_model"}

ModelTypes == {"SCRIPT_GEN", "TEXT_CLASS", "STYLE_TRANSFER"}

\* self.models.get(model_type, []): five generation models, three
\* classification models, no entry for STYLE_TRANSFER
ChainLength(model_type) ==
    CASE model_type = "SCRIPT_GEN" -> 5
      [] model_type = "TEXT_CLASS" -> 3
      [] OTHER -> 0

FInit ==
    /\ f_fn \in FunctionsWithRetry
    /\ f_pc = "start"
    /\ f_attempt = 1
    /\ f_calls = <<>>
    /\ f_failures = 0
    /\ f_outcome = Pending
    /\ f_type \in (IF f_fn = "create_video" THEN {"SCRIPT_GEN"} ELSE ModelTypes)
    /\ f_force \in (IF f_fn = "get_model" THEN BOOLEAN ELSE {FALSE})
    /\ f_loaded \in (IF f_fn = "get_model" THEN SUBSET (1..2) ELSE {{}})
    /\ f_idx = 1
    /\ f_cached \in (IF f_fn = "generate_text" THEN BOOLEAN ELSE {FALSE})

\* the body returns v to the retry wrapper
FReturn(v) ==
    /\ f_outcome' = [kind |-> "return", value |-> v]
    /\ f_pc' = "attempt_done"

\* the work failed: a None result, or an exception that the body's own
\* except Exception clause logs and turns into return None
FCaught ==
    /\ FReturn("None")
    /\ f_failures' = f_failures + 1

\* a stage of create_video returned something truthy
FProceed(to) ==
    /\ f_pc' = to
    /\ UNCHANGED <<f_outcome, f_failures>>

FGenerateScript ==
    /\ f_fn = "create_video" /\ f_pc = "start"
    /\ f_calls' = Append(f_calls, "_generate_script")
    /\ \/ FProceed("keywords")
       \/ FCaught
    /\ UNCHANGED <<f_fn, f_attempt, f_type, f_force, f_loaded, f_idx, f_cached>>
    /\ UNCHANGED <<tvars, evars, dvars, uvars, cvars, yvars>>

FExtractKeywords ==
    /\ f_fn = "create_video" /\ f_pc = "keywords"
    /\ f_calls' = Append(f_calls, "_extract_keywords")
    /\ \/ FProceed("video")
       \/ FCaught
    /\ UNCHANGED <<f_fn, f_attempt, f_type, f_force, f_loaded, f_idx, f_cached>>
    /\ UNCHANGED <<tvars, evars, dvars, uvars, cvars, yvars>>

FGetVideo ==
    /\ f_fn = "create_video" /\ f_pc = "video"
    /\ f_calls' = Append(f_calls, "get_video")
    /\ \/ FProceed("music")
       \/ FCaught
    /\ UNCHANGED <<f_fn, f_attempt, f_type, f_force, f_loaded, f_idx, f_cached>>
    /\ UNCHANGED <<tvars, evars, dvars, uvars, cvars, yvars>>

FGetMusic ==
    /\ f_fn = "create_video" /\ f_pc = "music"
    /\ f_calls' = Append(f_calls, "get_music")
    /\ \/ FProceed("download")
       \/ FCaught
    /\ UNCHANGED <<f_fn, f_attempt, f_type, f_force, f_loaded, f_idx, f_cached>>
    /\ UNCHANGED <<tvars, evars, dvars, uvars, cvars, yvars>>

\* download_asset(video_url, VIDEO), download_asset(music_url, MUSIC), then
\* one check of both paths
FDownloadAssets ==
    /\ f_fn = "create_video" /\ f_pc = "download"
    /\ \/ /\ f_calls' = Append(f_calls, "download_asset")
          /\ FCaught
       \/ /\ f_calls' = f_calls \o <<"download_asset", "download_asset">>
          /\ \/ FProceed("style")
             \/ FCaught
    /\ UNCHANGED <<f_fn, f_attempt, f_type, f_force, f_loaded, f_idx, f_cached>>
    /\ UNCHANGED <<tvars, evars, dvars, uvars, cvars, yvars>>

FApplyStyle ==
    /\ f_fn = "create_video" /\ f_pc = "style"
    /\ f_calls' = Append(f_calls, "_apply_style")
    /\ \/ FProceed("compose")
       \/ FCaught
    /\ UNCHANGED <<f_fn, f_attempt, f_type, f_force, f_loaded, f_idx, f_cached>>
    /\ UNCHANGED <<tvars, evars, dvars, uvars, cvars, yvars>>

\* output_path is returned as _compose_video gave it, None included
FComposeVideo ==
    /\ f_fn = "create_video" /\ f_pc = "compose"
    /\ f_calls' = Append(f_calls, "_compose_video")
    /\ \/ FReturn("path") /\ UNCHANGED f_failures
       \/ FCaught
    /\ UNCHANGED <<f_fn, f_attempt, f_type, f_force, f_loaded, f_idx, f_cached>>
    /\ UNCHANGED <<tvars, evars, dvars, uvars, cvars, yvars>>

\* get_model giving up at the first model that fails to load
GetModelTryGiveUp ==
    /\ f_fn = "get_model" /\ f_pc = "start"
    /\ f_idx <= ChainLength(f_type)
    /\ IF ~f_force /\ f_idx \in f_loaded
       THEN /\ FReturn("pipeline")
            /\ UNCHANGED <<f_loaded, f_idx, f_failures, f_calls>>
       ELSE \/ /\ f_calls' = Append(f_calls, [model |-> f_idx, loaded |-> TRUE])
               /\ f_loaded' = f_loaded \cup {f_idx}
               /\ FReturn("pipeline")
               /\ UNCHANGED <<f_idx, f_failures>>
            \/ /\ f_calls' = Append(f_calls, [model |-> f_idx, loaded |-> FALSE])
               /\ FReturn("None")
               /\ UNCHANGED <<f_loaded, f_idx, f_failures>>
    /\ UNCHANGED <<f_fn, f_attempt, f_type, f_force, f_cached>>
    /\ UNCHANGED <<tvars, evars, dvars, uvars, cvars, yvars>>

\* one iteration of for model_config in models: a model found in
\* loaded_models is returned unless force_reload; otherwise the model is
\* loaded (f_calls records the load and whether it succeeded), and it is
\* stored and returned, or the exception is logged and the loop continues
GetModelTry ==
    /\ f_fn = "get_model" /\ f_pc = "start"
    /\ f_idx <= ChainLength(f_type)
    /\ IF ~f_force /\ f_idx \in f_loaded
       THEN /\ FReturn("pipeline")
            /\ UNCHANGED <<f_loaded, f_idx, f_failures, f_calls>>
       ELSE \/ /\ f_calls' = Append(f_calls, [model |-> f_idx, loaded |-> TRUE])
               /\ f_loaded' = f_loaded \cup {f_idx}
               /\ FReturn("pipeline")
               /\ UNCHANGED <<f_idx, f_failures>>
            \/ /\ f_calls' = Append(f_calls, [model |-> f_idx, loaded |-> FALSE])
               /\ f_idx' = f_idx + 1
               /\ UNCHANGED <<f_loaded, f_pc, f_outcome, f_failures>>
    /\ UNCHANGED <<f_fn, f_attempt, f_type, f_force, f_cached>>
    /\ UNCHANGED <<tvars, evars, dvars, uvars, cvars, yvars>>

\* "All models failed": return None
GetModelExhausted ==
    /\ f_fn = "get_model" /\ f_pc = "start"
    /\ f_idx > ChainLength(f_type)
    /\ FCaught
    /\ UNCHANGED <<f_fn, f_attempt, f_calls, f_type, f_force, f_loaded, f_idx,
                   f_cached>>
    /\ UNCHANGED <<tvars, evars, dvars, uvars, cvars, yvars>>

\* model = await self.get_model(model_type); if not model: return None
GenerateTextGetModel ==
    /\ f_fn = "generate_text" /\ f_pc = "start"
    /\ \/ /\ ChainLength(f_type) > 0
          /\ FProceed("generate")
       \/ FCaught
    /\ UNCHANGED <<f_fn, f_attempt, f_calls, f_type, f_force, f_loaded, f_idx,
                   f_cached>>
    /\ UNCHANGED <<tvars, evars, dvars, uvars, cvars, yvars>>

GenerateTextRun ==
    /\ f_fn = "generate_text" /\ f_pc = "generate"
    /\ IF f_cached
       THEN FReturn("text") /\ UNCHANGED <<f_cached, f_failures>>
       ELSE \/ /\ f_cached' = TRUE
               /\ FReturn("text")
               /\ UNCHANGED f_failures
            \/ FCaught /\ UNCHANGED f_cached
    /\ UNCHANGED <<f_fn, f_attempt, f_calls, f_type, f_force, f_loaded, f_idx>>
    /\ UNCHANGED <<tvars, evars, dvars, uvars, cvars, yvars>>

\* the wrapper of @retry(stop=stop_after_attempt(3), wait=..., reraise=True):
\* an attempt that raised is repeated until the third, whose exception is
\* re-raised; an attempt that returned ends the call with its value
Retrying ==
    /\ f_pc = "attempt_done"
    /\ IF f_outcome.kind = "raise"
       THEN IF f_attempt < stop_after_attempt
            THEN /\ f_attempt' = f_attempt + 1
                 /\ f_pc' = "start"
                 /\ f_idx' = 1
                 /\ f_outcome' = Pending
            ELSE /\ f_pc' = "raised"
                 /\ UNCHANGED <<f_attempt, f_idx, f_outcome>>
       ELSE /\ f_pc' = "returned"
            /\ UNCHANGED <<f_attempt, f_idx, f_outcome>>
    /\ UNCHANGED <<f_fn, f_calls, f_failures, f_type, f_force, f_loaded,
                   f_cached>>
    /\ UNCHANGED <<tvars, evars, dvars, uvars, cvars, yvars>>

FNext ==
    \/ FGenerateScript
    \/ FExtractKeywords
    \/ FGetVideo
    \/ FGetMusic
    \/ FDownloadAssets
    \/ FApplyStyle
    \/ FComposeVideo
    \/ GetModelTry
    \/ GetModelExhausted
    \/ GenerateTextGetModel
    \/ GenerateTextRun
    \/ Retrying

FactoryInit == TIdle /\ EIdle /\ DIdle /\ FInit /\ UIdle /\ CIdle /\ YIdle

FactorySpec == FactoryInit /\ [][FNext]_vars

\* ---------------------------------------- utils/text_effects.py, called
EffectNames ==
    {"fade", "slide", "zoom", "typewriter", "bounce", "rotate", "wave",
     "glitch", "split"}

\* names that are no key of the effects table
OtherNames == {"sparkle", ""}

\* kwargs.get(key, default)
Get(kwargs, key, default) ==
    IF \E p \in kwargs : p[1] = key
    THEN (CHOOSE p \in kwargs : p[1] = key)[2]
    ELSE default

\* the effects table of animate_text: what each lambda calls on the clip.
\* fade: fadeout then fadein over fade_duration (0.5 s unless given);
\* glitch does not read duration
effects(duration, kwargs) ==
    [e \in EffectNames |->
        CASE e = "fade" ->
               LET fd == Get(kwargs, "fade_duration", 1)
               IN  << [method |-> "fadeout", curve |-> e, over |-> fd],
                      [method |-> "fadein", curve |-> e, over |-> fd] >>
          [] e \in {"slide", "bounce", "wave", "split"} ->
               << [method |-> "set_position", curve |-> e, over |-> duration] >>
          [] e = "glitch" ->
               << [method |-> "set_position", curve |-> e, over |-> 0] >>
          [] e = "zoom" ->
               << [method |-> "resize", curve |-> e, over |-> duration] >>
          [] e = "typewriter" ->
               << [method |-> "set_mask", curve |-> e, over |-> duration] >>
          [] e = "rotate" ->
               << [method |-> "rotate", curve |-> e, over |-> duration] >> ]

\* animate_text without the default of effects.get
animate_textNoDefault(clip, effect, duration, kwargs) ==
    IF effect \in DOMAIN effects(duration, kwargs)
    THEN [kind |-> "clip", clip |-> clip,
          calls |-> effects(duration, kwargs)[effect]]
    ELSE [kind |-> "raised", clip |-> clip, calls |-> <<>>]

\* return effects.get(effect, effects['fade'])(clip)
animate_text(clip, effect, duration, kwargs) ==
    [kind |-> "clip", clip |-> clip,
     calls |-> IF effect \in DOMAIN effects(duration, kwargs)
               THEN effects(duration, kwargs)[effect]
               ELSE effects(duration, kwargs)["fade"]]

\* TextClip(text, size=size, method='caption', ...): the library renders the
\* text with ImageMagick; what it does with an empty text or a size that is
\* not positive is not decided by this code: it raises or returns a clip
TextClip(text, size) ==
    {[kind |-> "clip", text |-> text, size |-> size]} \cup
    IF text = "" \/ size[1] <= 0 \/ size[2] <= 0
    THEN {[kind |-> "raised", text |-> text, size |-> size]}
    ELSE {}

\* create_caption: return TextClip(text, ..., size=size, method='caption')
create_caption(text, size) == TextClip(text, size)

\* a video as add_captions_to_video may receive it
InputVideos ==
    { [NoVideo EXCEPT !.plays = <<1>>, !.duration = d, !.audio = <<"source">>,
                      !.layers = ls, !.composites = Len(ls)] :
        d \in ClipDurations,
        ls \in {<<>>, <<Timed("title", 0, Sec(3))>>} }

UInit ==
    /\ u_fn \in {"animate_text", "create_caption", "add_captions_to_video"}
    /\ u_pc = "start"
    /\ u_clip \in (IF u_fn = "animate_text" THEN {"title", "caption"}
                   ELSE {"title"})
    /\ u_effect \in (IF u_fn = "animate_text" THEN EffectNames \cup OtherNames
                     ELSE {"fade"})
    /\ u_duration \in (IF u_fn = "animate_text" THEN {Sec(2), Sec(3)}
                       ELSE {Sec(3)})
    /\ u_kwargs \in (IF u_fn = "animate_text"
                     THEN {{}, {<<"fade_duration", 1>>}, {<<"fade_duration", 2>>}}
                     ELSE {{}})
    /\ u_text \in (IF u_fn = "create_caption" THEN {"", "text"} ELSE {"text"})
    /\ u_size \in (IF u_fn = "create_caption"
                   THEN {0, 1080} \X {-1, 0, 1920}
                   ELSE {<<1080, 1920>>})
    /\ u_video \in (IF u_fn = "add_captions_to_video" THEN InputVideos
                    ELSE {NoVideo})
    /\ u_captions \in (IF u_fn = "add_captions_to_video"
                       THEN {CaptionDicts(n) : n \in 0..MaxCaptions}
                       ELSE {<<>>})
    /\ u_result = NoResult

AnimateText ==
    /\ u_fn = "animate_text" /\ u_pc = "start"
    /\ u_result' = animate_text(u_clip, u_effect, u_duration, u_kwargs)
    /\ u_pc' = "done"
    /\ UNCHANGED <<u_fn, u_clip, u_effect, u_duration, u_kwargs, u_text, u_size,
                   u_video, u_captions>>
    /\ UNCHANGED <<tvars, evars, dvars, fvars, cvars, yvars>>

CreateCaption ==
    /\ u_fn = "create_caption" /\ u_pc = "start"
    /\ u_result' \in create_caption(u_text, u_size)
    /\ u_pc' = "done"
    /\ UNCHANGED <<u_fn, u_clip, u_effect, u_duration, u_kwargs, u_text, u_size,
                   u_video, u_captions>>
    /\ UNCHANGED <<tvars, evars, dvars, fvars, cvars, yvars>>

AddCaptionsToVideo ==
    /\ u_fn = "add_captions_to_video" /\ u_pc = "start"
    /\ u_result' = add_captions_to_video(u_video, u_captions)
    /\ u_pc' = "done"
    /\ UNCHANGED <<u_fn, u_clip, u_effect, u_duration, u_kwargs, u_text, u_size,
                   u_video, u_captions>>
    /\ UNCHANGED <<tvars, evars, dvars, fvars, cvars, yvars>>

UNext ==
    \/ AnimateText
    \/ CreateCaption
    \/ AddCaptionsToVideo

TextInit == TIdle /\ EIdle /\ DIdle /\ FIdle /\ UInit /\ CIdle /\ YIdle

TextSpec == TextInit /\ [][UNext]_vars

\* ------------------------------------ factory_core/database/db_base.py
\* what set_with_expiry stores: expiry 0 stands for expiry_seconds = None
Entries ==
    [kind : {"entry"}, expiry : 0..MaxExpiry, timestamp : 0..1]

\* value.get("expiry") and current_time - value["timestamp"] > value["expiry"]
Expired(value, now) ==
    /\ value.kind = "entry"
    /\ value.expiry # 0
    /\ now - value.timestamp > value.expiry

CInit ==
    /\ c_fn \in {"clear_expired", "delete_key", "get_if_fresh"}
    /\ c_arg \in (IF c_fn = "clear_expired" THEN {1} ELSE 1..MaxKeys)
    /\ c_now \in {MaxExpiry, MaxExpiry + 1}
    /\ c_exists \in BOOLEAN
    /\ c_doc \in (IF c_exists THEN [1..MaxKeys -> Entries \cup {None}]
                  ELSE {[k \in 1..MaxKeys |-> None]})
    /\ c_lock = "free"
    /\ c_pc = "start"
    /\ c_snapshot = [k \in 1..MaxKeys |-> None]
    /\ c_idx = 0
    /\ c_key = 0
    /\ c_result = "none"

\* delete_key(key): self.save(key, None)
delete_key(key) ==
    /\ c_key' = key
    /\ c_pc' = "save"

\* clear_expired, lines 279-284: take the lock, read the document; return
\* (and release) when there is none
ClearExpiredLock ==
    /\ c_fn = "clear_expired" /\ c_pc = "start"
    /\ c_lock = "free"
    /\ IF c_exists
       THEN /\ c_lock' = "clear_expired"
            /\ c_snapshot' = c_doc
            /\ c_idx' = 1
            /\ c_pc' = "iterate"
       ELSE /\ c_pc' = "returned"
            /\ UNCHANGED <<c_lock, c_snapshot, c_idx>>
    /\ UNCHANGED <<c_fn, c_arg, c_now, c_exists, c_doc, c_key, c_result>>
    /\ UNCHANGED <<tvars, evars, dvars, fvars, uvars, yvars>>

\* one item of for key, value in doc.items(), still inside with self._lock;
\* after the last item the with block ends and the lock is released
ClearExpiredItem ==
    /\ c_fn = "clear_expired" /\ c_pc = "iterate"
    /\ IF c_idx > Len(Keys)
       THEN /\ c_lock' = "free"
            /\ c_pc' = "returned"
            /\ UNCHANGED <<c_idx, c_key>>
       ELSE IF Expired(c_snapshot[Keys[c_idx]], c_now)
            THEN /\ delete_key(Keys[c_idx])
                 /\ UNCHANGED <<c_idx, c_lock>>
            ELSE /\ c_idx' = c_idx + 1
                 /\ UNCHANGED <<c_pc, c_key, c_lock>>
    /\ UNCHANGED <<c_fn, c_arg, c_now, c_exists, c_doc, c_snapshot, c_result>>
    /\ UNCHANGED <<tvars, evars, dvars, fvars, uvars, yvars>>

\* delete_key called by the user
DeleteKey ==
    /\ c_fn = "delete_key" /\ c_pc = "start"
    /\ delete_key(c_arg)
    /\ UNCHANGED <<c_fn, c_arg, c_now, c_exists, c_doc, c_lock, c_snapshot,
                   c_idx, c_result>>
    /\ UNCHANGED <<tvars, evars, dvars, fvars, uvars, yvars>>

\* get_if_fresh: get(key) under the lock, released again (CacheError when
\* the document is gone); None for a key without a value; an expired entry
\* is deleted with delete_key before CacheExpiredError is raised; otherwise
\* the data
GetIfFresh ==
    /\ c_fn = "get_if_fresh" /\ c_pc = "start"
    /\ c_lock = "free"
    /\ IF ~c_exists
       THEN c_pc' = "raised" /\ c_result' = "CacheError" /\ UNCHANGED c_key
       ELSE IF c_doc[c_arg] = None
       THEN c_pc' = "returned" /\ c_result' = "None" /\ UNCHANGED c_key
       ELSE IF Expired(c_doc[c_arg], c_now)
       THEN delete_key(c_arg) /\ UNCHANGED c_result
       ELSE c_pc' = "returned" /\ c_result' = "data" /\ UNCHANGED c_key
    /\ UNCHANGED <<c_fn, c_arg, c_now, c_exists, c_doc, c_lock, c_snapshot,
                   c_idx>>
    /\ UNCHANGED <<tvars, evars, dvars, fvars, uvars, yvars>>

\* TinyMongoDocument.save(key, None), lines 128-135: with self._lock waits
\* until the lock is free (threading.Lock has no owner and is not
\* re-entrant), then update_one(..., upsert=True) and the lock is released;
\* afterwards control is back in the caller of delete_key
Save ==
    /\ c_pc = "save"
    /\ c_lock = "free"
    /\ c_doc' = [c_doc EXCEPT ![c_key] = None]
    /\ c_exists' = TRUE
    /\ CASE c_fn = "clear_expired" ->
                c_pc' = "iterate" /\ c_idx' = c_idx + 1 /\ UNCHANGED c_result
         [] c_fn = "delete_key" ->
                c_pc' = "returned" /\ UNCHANGED <<c_idx, c_result>>
         [] c_fn = "get_if_fresh" ->
                /\ c_pc' = "raised"
                /\ c_result' = "CacheExpiredError"
                /\ UNCHANGED c_idx
    /\ UNCHANGED <<c_fn, c_arg, c_now, c_lock, c_snapshot, c_key>>
    /\ UNCHANGED <<tvars, evars, dvars, fvars, uvars, yvars>>

CNext ==
    \/ ClearExpiredLock
    \/ ClearExpiredItem
    \/ DeleteKey
    \/ GetIfFresh
    \/ Save

CacheInit == TIdle /\ EIdle /\ DIdle /\ FIdle /\ UIdle /\ CInit /\ YIdle

CacheSpec == CacheInit /\ [][CNext]_vars

\* ---------------------------------- factory_core/database/content_db.py
ContentTypes == {"video", "audio"}

OldIdle == TIdle /\ EIdle /\ DIdle /\ FIdle /\ UIdle /\ CIdle

KInit ==
    /\ k_stored = [i \in 1..MaxIds |-> "absent"]
    /\ k_cache = {}
    /\ k_next = 1
    /\ k_made = [i \in 1..MaxIds |-> "never"]
    /\ k_call = NoCall

\* create_content(content_type): a fresh id; ContentManager(id, type, True)
\* inserts the content document and, through CacheDocument, the cache
\* document of the id, then saves content_type and status
CreateContent ==
    /\ k_next <= MaxIds
    /\ \E t \in ContentTypes :
          /\ k_stored' = [k_stored EXCEPT ![k_next] = t]
          /\ k_made' = [k_made EXCEPT ![k_next] = t]
          /\ k_call' = [op |-> "create_content", id |-> k_next, type |-> t,
                        result |-> "manager"]
    /\ k_cache' = k_cache \cup {k_next}
    /\ k_next' = k_next + 1
    /\ UNCHANGED besides_k

\* get_content(content_id, content_type): ContentManager(id, type) opens the
\* content document (DocumentNotFoundError when there is none) and then
\* builds CacheDocument("content", id), which always constructs with
\* create=True: it inserts the cache document, or raises when the id has one
\* already. Any exception makes get_content return None
GetContent ==
    /\ k_next > 0
    /\ \E x \in 1..MaxIds, t \in ContentTypes :
          IF k_stored[x] = "absent"
          THEN /\ k_call' = [op |-> "get_content", id |-> x, type |-> t,
                             result |-> "None"]
               /\ UNCHANGED k_cache
          ELSE IF x \in k_cache
          THEN /\ k_call' = [op |-> "get_content", id |-> x, type |-> t,
                             result |-> "None"]
               /\ UNCHANGED k_cache
          ELSE /\ k_cache' = k_cache \cup {x}
               /\ k_call' = [op |-> "get_content", id |-> x, type |-> t,
                             result |-> IF k_stored[x] = t THEN "manager"
                                        ELSE "None"]
    /\ UNCHANGED <<k_stored, k_next, k_made>>
    /\ UNCHANGED besides_k

\* ContentManager.clear_cache() on a manager create_content returned:
\* cache_doc.delete() removes the cache document, DocumentNotFoundError when
\* it is gone already
ClearCache ==
    /\ k_next > 0
    /\ \E x \in 1..MaxIds :
          /\ k_made[x] # "never"
          /\ k_cache' = k_cache \ {x}
          /\ k_call' = [op |-> "clear_cache", id |-> x, type |-> k_made[x],
                        result |-> IF x \in k_cache THEN "None" ELSE "raised"]
    /\ UNCHANGED <<k_stored, k_next, k_made>>
    /\ UNCHANGED besides_k

KNext ==
    \/ CreateContent
    \/ GetContent
    \/ ClearCache

ContentInit == OldIdle /\ KInit /\ NIdle /\ GIdle /\ SIdle /\ VIdle

ContentSpec == ContentInit /\ [][KNext]_vars

\* ---------------------------------------------------------------------
\* TinyMongoDocument.__init__ (factory_core/database/db_base.py), run by
\* several threads on one collection

Threads == 1..MaxThreads

\* the document_id arguments; "" is the empty id
DocumentIds == {"", "a"}

NInit ==
    /\ n_coll \in [DocumentIds -> {0, 1}]
    /\ n_before = n_coll
    /\ n_lock = 0
    /\ n_thread \in [Threads -> [document_id : DocumentIds, create : BOOLEAN,
                                 pc : {"start"}, result : {"none"}]]

\* the constructor ends: with the document, or with an exception
finish(t, at, outcome) ==
    n_thread' = [n_thread EXCEPT ![t].pc = at, ![t].result = outcome]

\* with self._lock, on entry: the thread waits until the lock is free
acquireUnlocked(t) == UNCHANGED n_lock
acquire(t) == n_lock = 0 /\ n_lock' = t

\* if create: with self._lock
EnterLock(t) ==
    /\ n_thread[t].pc = "start" /\ n_thread[t].create
    /\ acquire(t)
    /\ n_thread' = [n_thread EXCEPT ![t].pc = "find_one"]
    /\ UNCHANGED <<n_coll, n_before>>
    /\ UNCHANGED besides_n

\* find_one({"_id": document_id}): DatabaseError when there is a document,
\* which leaves the with block and so releases the lock
FindOne(t) ==
    /\ n_thread[t].pc = "find_one"
    /\ IF n_coll[n_thread[t].document_id] > 0
       THEN finish(t, "raised", "DatabaseError") /\ n_lock' = 0
       ELSE /\ n_thread' = [n_thread EXCEPT ![t].pc = "insert_one"]
            /\ UNCHANGED n_lock
    /\ UNCHANGED <<n_coll, n_before>>
    /\ UNCHANGED besides_n

\* insert_one({"_id": document_id}), the end of the with block
InsertOne(t) ==
    /\ n_thread[t].pc = "insert_one"
    /\ n_coll' = [n_coll EXCEPT ![n_thread[t].document_id] = @ + 1]
    /\ n_lock' = 0
    /\ finish(t, "done", "document")
    /\ UNCHANGED n_before
    /\ UNCHANGED besides_n

\* elif document_id and not find_one(...): raise DocumentNotFoundError;
\* the lock is not taken
OpenDocument(t) ==
    /\ n_thread[t].pc = "start" /\ ~n_thread[t].create
    /\ IF n_thread[t].document_id # "" /\ n_coll[n_thread[t].document_id] = 0
       THEN finish(t, "raised", "DocumentNotFoundError")
       ELSE finish(t, "done", "document")
    /\ UNCHANGED <<n_coll, n_before, n_lock>>
    /\ UNCHANGED besides_n

NNext ==
    \E t \in Threads :
        \/ EnterLock(t)
        \/ FindOne(t)
        \/ InsertOne(t)
        \/ OpenDocument(t)

DocumentInit == OldIdle /\ KIdle /\ NInit /\ GIdle /\ SIdle /\ VIdle

DocumentSpec == DocumentInit /\ [][NNext]_vars

\* ---------------------------------------------------------------------
\* ConfigManager (factory_core/config/config_manager.py)

\* self.defaults as the dict literal of __init__ builds it: a top-level dict
\* whose "video" and "api" values are dict objects of their own
defaults ==
    [output_dir |-> "output", video |-> "d_video", api |-> "d_api"]

\* the keys get and set are called with
ConfigKeys == {"output_dir", "video.fps", "api.pexels"}

\* the values set is called with
ConfigValues(key) ==
    CASE key = "output_dir" -> {"output", "elsewhere"}
      [] key = "video.fps" -> {30, 60}
      [] key = "api.pexels" -> {"", "key"}

\* the dict a top-level dict stands for, nested dicts looked up in the heap
Resolve(top, heap) ==
    [output_dir |-> top.output_dir, video |-> heap[top.video],
     api |-> heap[top.api]]

\* get(key): the path of the key followed through self.config
get(key) ==
    CASE key = "output_dir" -> g_config.output_dir
      [] key = "video.fps" -> g_heap[g_config.video].fps
      [] key = "api.pexels" -> g_heap[g_config.api].pexels

\* __init__: config = defaults.copy(), a copy of the top level only;
\* _load_config updates it with the top-level entries of config.json, when
\* there is one, so that a nested dict of the file replaces the reference;
\* _load_env writes the key of the environment into config["api"]
GInit ==
    \E file \in SUBSET {"output_dir", "video", "api"},
       stored \in ConfigValues("video.fps"),
       env \in ConfigValues("api.pexels") :
        /\ g_defaults = defaults
        /\ g_config =
              [output_dir |-> IF "output_dir" \in file THEN "elsewhere"
                              ELSE defaults.output_dir,
               video |-> IF "video" \in file THEN "u_video" ELSE defaults.video,
               api |-> IF "api" \in file THEN "u_api" ELSE defaults.api]
        /\ g_heap =
              [d_video |-> [fps |-> 30],
               d_api |-> [pexels |-> IF "api" \in file THEN "" ELSE env],
               u_video |-> [fps |-> stored],
               u_api |-> [pexels |-> env]]
        /\ g_original = Resolve(g_defaults, g_heap)
        /\ g_file = IF file = {} THEN "absent" ELSE "loaded"
        /\ g_call = "__init__"

\* save(): json.dump(self.config)
save(top, heap) == g_file' = Resolve(top, heap)

\* set(key, value): walks keys[:-1] with setdefault, which returns the dict
\* object already under the key, assigns the last key in it, and saves
ConfigSet ==
    /\ g_call # "none"
    /\ \E key \in ConfigKeys :
          \E value \in ConfigValues(key) :
              /\ CASE key = "output_dir" ->
                        /\ g_config' = [g_config EXCEPT !.output_dir = value]
                        /\ UNCHANGED g_heap
                   [] key = "video.fps" ->
                        /\ g_heap' = [g_heap EXCEPT ![g_config.video].fps = value]
                        /\ UNCHANGED g_config
                   [] key = "api.pexels" ->
                        /\ g_heap' = [g_heap EXCEPT ![g_config.api].pexels = value]
                        /\ UNCHANGED g_config
    /\ save(g_config', g_heap')
    /\ g_call' = "set"
    /\ UNCHANGED <<g_defaults, g_original>>
    /\ UNCHANGED besides_g

\* reset(): config = defaults.copy(), a copy of the top level only, and save
ConfigReset ==
    /\ g_call # "none"
    /\ g_config' = g_defaults
    /\ save(g_config', g_heap)
    /\ g_call' = "reset"
    /\ UNCHANGED <<g_defaults, g_heap, g_original>>
    /\ UNCHANGED besides_g

GNext ==
    \/ ConfigSet
    \/ ConfigReset

ConfigInit == OldIdle /\ KIdle /\ NIdle /\ GInit /\ SIdle /\ VIdle

ConfigSpec == ConfigInit /\ [][GNext]_vars

\* ---------------------------------------------------------------------
\* StyleManager.get_style_model (factory_core/ai/style_manager.py)

StyleTypes == {"cinematic", "vlog", "minimal", "dynamic", "custom"}

\* self.models: the "type" of each model of a style's chain, in order; the
\* name of a model is the style and its position
StyleChain(style) ==
    CASE style = "cinematic" -> <<"neural", "fast", "fastai", "diffusion">>
      [] style \in {"vlog", "minimal", "dynamic"} ->
            <<"neural", "fast", "basic", "fastai">>
      [] OTHER -> <<>>

\* _load_fastai_model, _load_diffusion_model: the model, or None when the
\* load raised, which both catch
LoadOutcomes == {"model", "None"}

\* self.loaded_models[name], "absent" without the key
Loaded(style, i) ==
    IF \E e \in s_loaded : e.style = style /\ e.idx = i
    THEN (CHOOSE e \in s_loaded : e.style = style /\ e.idx = i).value
    ELSE "absent"

\* self.loaded_models[name] = model
Store(style, i, model) ==
    s_loaded' = {e \in s_loaded : ~(e.style = style /\ e.idx = i)}
                   \cup {[style |-> style, idx |-> i, value |-> model]}

SInit ==
    /\ s_style = "none"
    /\ s_force = FALSE
    /\ s_idx = 0
    /\ s_pc = "idle"
    /\ s_result = "none"
    /\ s_loaded = {}

\* a call of get_style_model(style_type, force_reload)
StyleCall ==
    /\ s_pc \in {"idle", "returned"}
    /\ s_style' \in StyleTypes
    /\ s_force' \in BOOLEAN
    /\ s_idx' = 1
    /\ s_pc' = "loop"
    /\ s_result' = "none"
    /\ UNCHANGED s_loaded
    /\ UNCHANGED besides_s

\* one pass of the loop: a model found in loaded_models is returned unless
\* force_reload; a fastai or diffusion model is loaded, a basic one is its
\* params, and what came of it is stored and returned; any other type is
\* passed over
StyleTry ==
    /\ s_pc = "loop" /\ s_idx <= Len(StyleChain(s_style))
    /\ LET type == StyleChain(s_style)[s_idx]
           return(v) == s_pc' = "returned" /\ s_result' = v /\ UNCHANGED s_idx
       IN  IF ~s_force /\ Loaded(s_style, s_idx) # "absent"
           THEN return(Loaded(s_style, s_idx)) /\ UNCHANGED s_loaded
           ELSE IF type \in {"fastai", "diffusion"}
           THEN \E model \in LoadOutcomes :
                   Store(s_style, s_idx, model) /\ return(model)
           ELSE IF type = "basic"
           THEN Store(s_style, s_idx, "model") /\ return("model")
           ELSE /\ s_idx' = s_idx + 1
                /\ UNCHANGED <<s_pc, s_result, s_loaded>>
    /\ UNCHANGED <<s_style, s_force>>
    /\ UNCHANGED besides_s

\* the chain is exhausted: return None
StyleExhausted ==
    /\ s_pc = "loop" /\ s_idx > Len(StyleChain(s_style))
    /\ s_pc' = "returned"
    /\ s_result' = "None"
    /\ UNCHANGED <<s_style, s_force, s_idx, s_loaded>>
    /\ UNCHANGED besides_s

SNext ==
    \/ StyleCall
    \/ StyleTry
    \/ StyleExhausted

StyleInit == OldIdle /\ KIdle /\ NIdle /\ GIdle /\ SInit /\ VIdle

StyleSpec == StyleInit /\ [][SNext]_vars

\* ---------------------------------------------------------------------
\* VoiceModule.synthesize (factory_core/audio/voice_base.py). The requests
\* with valid arguments are for one text and voice_id, so for one cache key

\* text arguments: the empty string, a text, a text of 5001 characters
Texts == {"", "hello", "5001 characters"}

VoiceIds == {"", "voice"}

\* _validate_text and _validate_voice_id raise ValueError
Invalid(text, voice_id) ==
    \/ text = ""
    \/ text = "5001 characters"
    \/ voice_id = ""

\* the paths in play: output_dir / f"{cache_key}.mp3", and an output_path
\* argument with a directory of its own
DefaultPath == "generated/audio/key.mp3"
CustomPath == "custom/out.mp3"
Paths == {DefaultPath, CustomPath}

\* the messages of the exceptions generate_voice raises
Messages == {"quota exceeded", "Quota Exceeded", "API QUOTA EXCEEDED today",
             "quota", "timeout"}

\* str(e).lower()
lower(message) ==
    CASE message = "Quota Exceeded" -> "quota exceeded"
      [] message = "API QUOTA EXCEEDED today" -> "api quota exceeded today"
      [] OTHER -> message

\* "quota exceeded" in message
HasQuotaExceeded(message) ==
    message \in {"quota exceeded", "api quota exceeded today"}

\* the except clause around generate_voice, case-sensitive
generate_voice_errorAsWritten(message) ==
    IF HasQuotaExceeded(message) THEN "VoiceQuotaError"
    ELSE "VoiceGenerationError"

\* the except clause around generate_voice
generate_voice_error(message) ==
    IF HasQuotaExceeded(lower(message)) THEN "VoiceQuotaError"
    ELSE "VoiceGenerationError"

NoEntry == [kind |-> "None", data |-> "none", expiry |-> 0, timestamp |-> 0]

\* get_cached_audio that never finds anything
get_cached_audioNever(entry, now, files) == "None"

\* get_cached_audio: get_if_fresh gives None for no entry and raises
\* CacheExpiredError for an expired one, which the except clause turns into
\* None; the path of a fresh entry is returned when its file exists, unless
\* the file is empty, which raises AudioFileError
get_cached_audio(entry, now, files) ==
    IF entry.kind = "None" \/ Expired(entry, now) THEN "None"
    ELSE CASE files[entry.data] = "audio" -> entry.data
           [] files[entry.data] = "empty" -> "AudioFileError"
           [] files[entry.data] = "missing" -> "None"

\* the cache after get_if_fresh: delete_key has cleared an expired entry
after_get_if_fresh(entry, now) ==
    IF Expired(entry, now) THEN NoEntry ELSE entry

VInit ==
    /\ v_cache = NoEntry
    /\ v_files \in [Paths -> {"missing", "audio"}]
    /\ v_now = 0
    /\ v_calls = 0
    /\ v_call = [text |-> "", voice_id |-> "", use_cache |-> FALSE,
                 read |-> FALSE, wrote |-> FALSE, generated |-> FALSE,
                 message |-> "none", outcome |-> "none"]
    /\ v_last = "none"

\* the call ends: what it was called with, whether it read and wrote the
\* cache and invoked generate_voice, the message generate_voice raised, and
\* the path returned or the exception raised
ends(text, voice_id, use_cache, read, wrote, generated, message, outcome) ==
    /\ v_call' = [text |-> text, voice_id |-> voice_id, use_cache |-> use_cache,
                  read |-> read, wrote |-> wrote, generated |-> generated,
                  message |-> message, outcome |-> outcome]
    /\ v_calls' = v_calls + 1
    /\ v_last' = IF use_cache /\ outcome \in Paths THEN outcome ELSE v_last

\* synthesize(text, voice_id, output_path, use_cache, cache_expiry):
\* validation, the cache lookup, _prepare_output_path, which may fail to make
\* the directory of an output_path argument, generate_voice, which raises
\* with a message or writes audio or an empty file to the output path and
\* returns the path, and cache_audio_file
Synthesize ==
    /\ v_calls < MaxCalls
    /\ \E text \in Texts, voice_id \in VoiceIds, use_cache \in BOOLEAN :
        LET done(read, wrote, generated, message, outcome) ==
                ends(text, voice_id, use_cache, read, wrote, generated,
                     message, outcome)
            cached == IF use_cache
                      THEN get_cached_audio(v_cache, v_now, v_files)
                      ELSE "None"
            looked == IF use_cache THEN after_get_if_fresh(v_cache, v_now)
                      ELSE v_cache
        IN  IF Invalid(text, voice_id)
            THEN /\ done(FALSE, FALSE, FALSE, "none", "AudioProcessingError")
                 /\ UNCHANGED <<v_cache, v_files>>
            ELSE IF cached # "None"
            THEN /\ done(TRUE, FALSE, FALSE, "none", cached)
                 /\ v_cache' = looked
                 /\ UNCHANGED v_files
            ELSE \E output_path \in {"None", CustomPath} :
                 LET path == IF output_path = "None" THEN DefaultPath
                             ELSE output_path
                 IN  \/ /\ output_path # "None"
                        /\ done(use_cache, FALSE, FALSE, "none", "AudioFileError")
                        /\ v_cache' = looked
                        /\ UNCHANGED v_files
                     \/ \E message \in Messages :
                           /\ done(use_cache, FALSE, TRUE, message,
                                   generate_voice_error(message))
                           /\ v_cache' = looked
                           /\ UNCHANGED v_files
                     \/ /\ v_files' = [v_files EXCEPT ![path] = "empty"]
                        /\ IF use_cache
                           THEN done(TRUE, FALSE, TRUE, "none", "AudioFileError")
                           ELSE done(FALSE, FALSE, TRUE, "none", path)
                        /\ v_cache' = looked
                     \/ /\ v_files' = [v_files EXCEPT ![path] = "audio"]
                        /\ IF use_cache
                           THEN \E cache_expiry \in {0, 1} :
                                   /\ done(TRUE, TRUE, TRUE, "none", path)
                                   /\ v_cache' = [kind |-> "entry",
                                                  data |-> path,
                                                  expiry |-> cache_expiry,
                                                  timestamp |-> v_now]
                           ELSE /\ done(FALSE, FALSE, TRUE, "none", path)
                                /\ v_cache' = looked
    /\ UNCHANGED v_now
    /\ UNCHANGED besides_v

\* time passes
VoiceTick ==
    /\ v_calls > 0 /\ v_now < MaxTime
    /\ v_now' = v_now + 1
    /\ UNCHANGED <<v_cache, v_files, v_calls, v_call, v_last>>
    /\ UNCHANGED besides_v

\* somebody removes or truncates an audio file
VoiceFileLost ==
    /\ v_calls > 0
    /\ \E p \in Paths, to \in {"missing", "empty"} :
          /\ v_files[p] = "audio"
          /\ v_files' = [v_files EXCEPT ![p] = to]
    /\ UNCHANGED <<v_cache, v_now, v_calls, v_call, v_last>>
    /\ UNCHANGED besides_v

VNext ==
    \/ Synthesize
    \/ VoiceTick
    \/ VoiceFileLost

VoiceInit == OldIdle /\ KIdle /\ NIdle /\ GIdle /\ SIdle /\ VInit

VoiceSpec == VoiceInit /\ [][VNext]_vars

\* =================================================================== claims
Ended == pc \in {"done", "raised"}

CaptionTemplate == tpl \in {"Modern", "Minimal", "Dynamic"}

\* the template has composited its captions
CaptionsComposited ==
    /\ CaptionTemplate
    /\ pc \in {"captioned", "overlaid", "done"}
    /\ "captions" \in text_content.keys
    /\ text_content.captions >= 1

\* total duration D of the concatenated timeline
TimelineDuration == SumDurations(processed)

Identity(n) == [i \in 1..n |-> i]

C2_SingleClipEmptyText ==
    (Len(clips) = 1 /\ text_content.keys = {}) =>
        /\ pc # "raised"
        /\ pc = "done" =>
            /\ video.duration = clips[1]
            /\ \A k \in 1..Len(video.layers) : video.layers[k].kind = "overlay"

\* C3: the returned timeline plays each input clip exactly once, in list
\* order, and lasts the sum of the clip durations less whatever the
\* transitions overlap, so never longer than that sum
C3_EachClipOnce ==
    pc = "done" =>
        /\ video.plays = Identity(Len(clips))
        /\ video.duration <=
              SumDurations([i \in 1..Len(clips) |-> SourceClip(i)])

AllStages ==
    <<"Created", "Preprocessed", "Transitioned", "TextComposited", "Overlaid",
      "AudioAttached", "Done">>

Without(seq, x) == SelectSeq(seq, LAMBDA y : y # x)

\* position of a stage in the order of the template: AIDynamic builds its
\* sections (text and overlay) before it concatenates
Rank(s) ==
    IF tpl = "AIDynamic"
    THEN CASE s = "Created" -> 0 [] s = "TextComposited" -> 1
           [] s = "Overlaid" -> 1 [] s = "Transitioned" -> 2
           [] s = "AudioAttached" -> 3 [] s = "Done" -> 4
           [] OTHER -> 5
    ELSE CHOOSE k \in 1..Len(AllStages) : AllStages[k] = s

C6_CaptionsWithin ==
    CaptionsComposited =>
        \A k \in 1..Len(Captions(video)) :
            LET c == Captions(video)[k]
            IN  /\ c.start < c.end
                /\ 0 <= c.start
                /\ c.end <= onto

\* C7: when edit_video or compose_video fails, no output file of that call
\* is left behind
C7_AllOrNothing ==
    d_result \in {"none", "raised"} => d_file = "none"

\* C8: every file handle edit_video or compose_video opened is closed when
\* the call has returned or raised
C8_HandlesClosed ==
    d_result # "running" => d_open = {}

EEnded == e_pc \in {"returned", "raised"}

Rendered ==
    /\ \E k \in 1..Len(e_calls) : e_calls[k] = "apply_template"
    /\ e_failed # "apply_template"

\* C9: once create_video has ended, the video apply_template returned has
\* been written exactly once and closed
C9_ConsumedOnce ==
    (EEnded /\ Rendered) => (e_writes = 1 /\ e_closed)

IsPrefix(a, b) == Len(a) <= Len(b) /\ a = SubSeq(b, 1, Len(a))

LaterStages ==
    <<"get_keywords", "source_video_clips", "find_music", "apply_template",
      "export">>

\* C10, as claimed: the stages run in the order script generation, keyword
\* extraction, asset sourcing, music sourcing, apply_template, export
C10_SixStages ==
    IsPrefix(e_calls, <<"generate_script">> \o LaterStages)

\* C10, amended: script generation runs only when the script is given as a
\* string; the stages that run, run in the claimed order, each after the
\* one before it returned; a stage that raises is the last stage to run and
\* makes create_video raise
C10_StagesInOrder ==
    /\ IsPrefix(e_calls, (IF e_script = "str" THEN <<"generate_script">>
                          ELSE <<>>) \o LaterStages)
    /\ e_failed # "none" =>
        /\ e_pc = "raised"
        /\ e_calls # <<>>
        /\ e_calls[Len(e_calls)] = e_failed
    /\ e_pc = "raised" => e_failed # "none"

\* create_video was given a ready script, and asset sourcing has raised
C10_Witness ==
    /\ e_script = "dict"
    /\ e_pc = "raised"
    /\ e_failed = "source_video_clips"
    /\ e_calls = <<"get_keywords", "source_video_clips">>

FEnded == f_pc \in {"returned", "raised"}

\* C11: a retry-decorated operation (create_video, generate_text, get_model)
\* whose underlying work fails is attempted again, never more than 3 times
\* in all, before the failure is reported: no failure is reported after a
\* single attempt
C11_RetriedBeforeReported ==
    /\ f_attempt <= stop_after_attempt
    /\ (FEnded /\ f_failures > 0) => f_attempt > 1

\* the pipeline stage each call of create_video belongs to
StageOf(call) ==
    CASE call = "_generate_script" -> "script generation"
      [] call \in {"get_video", "get_music", "download_asset"} -> "asset sourcing"
      [] call = "_apply_style" -> "style transfer"
      [] call = "_compose_video" -> "composition"
      [] OTHER -> "other"

PipelineStages ==
    {"script generation", "asset sourcing", "style transfer",
     "audio generation", "composition"}

Invocations(stage) ==
    Cardinality({i \in DOMAIN f_calls : StageOf(f_calls[i]) = stage})

\* C12: when every stage succeeds, create_video invokes each of script
\* generation, asset sourcing, style transfer, audio generation and
\* composition exactly once and returns the path composition produced
C12_EachStageOnce ==
    (f_fn = "create_video" /\ f_pc = "returned" /\ f_failures = 0) =>
        /\ \A stage \in PipelineStages : Invocations(stage) = 1
        /\ f_outcome.value = "path"

\* C13: animate_text with an effect name that is not in the effects table
\* returns what effect 'fade' returns for the same clip and parameters, and
\* does not raise
C13_UnknownIsFade ==
    (u_fn = "animate_text" /\ u_pc = "done" /\ u_effect \notin EffectNames) =>
        /\ u_result.kind = "clip"
        /\ u_result.clip = u_clip
        /\ u_result.calls =
              << [method |-> "fadeout", curve |-> "fade",
                  over |-> Get(u_kwargs, "fade_duration", 1)],
                 [method |-> "fadein", curve |-> "fade",
                  over |-> Get(u_kwargs, "fade_duration", 1)] >>

C13_Witness ==
    /\ u_fn = "animate_text" /\ u_pc = "done"
    /\ u_effect = "sparkle"
    /\ u_kwargs = {<<"fade_duration", 2>>}
    /\ u_result.kind = "clip"

\* C14: add_captions_to_video with an empty captions sequence returns the
\* input video unchanged: no layer added, no new composite around it
C14_EmptyIsIdentity ==
    (u_fn = "add_captions_to_video" /\ u_pc = "done" /\ u_captions = <<>>) =>
        u_result = u_video

\* C14 as the code has it: with an empty captions sequence the result is a
\* new composite around the input video and nothing else: no layer is added,
\* and the clips played, the duration and the sound are those of the input
C14_EmptyWrapsOnce ==
    (u_fn = "add_captions_to_video" /\ u_pc = "done" /\ u_captions = <<>>) =>
        /\ u_result.composites = u_video.composites + 1
        /\ u_result.layers = u_video.layers
        /\ u_result.plays = u_video.plays
        /\ u_result.duration = u_video.duration
        /\ u_result.audio = u_video.audio

C14_Witness ==
    /\ u_fn = "add_captions_to_video" /\ u_pc = "done"
    /\ u_captions = <<>>
    /\ u_video.layers # <<>>
    /\ u_result.composites = 2

\* C15: create_caption raises, and builds no text overlay, when text is
\* empty or a component of size is not positive
C15_InvalidRejected ==
    (u_fn = "create_caption" /\ u_pc = "done"
        /\ (u_text = "" \/ u_size[1] <= 0 \/ u_size[2] <= 0)) =>
        u_result.kind = "raised"

\* the presets and their settings as the quality claim lists them
ClaimedSettings ==
    [q \in {"Draft", "Standard", "High"} |->
        CASE q = "Draft" -> [bitrate |-> 1000, fps |-> 24]
          [] q = "Standard" -> [bitrate |-> 2500, fps |-> 30]
          [] q = "High" -> [bitrate |-> 5000, fps |-> 60]]

Exported == \E k \in 1..Len(e_calls) : e_calls[k] = "export"

\* C16: _export_for_platform accepts each of Draft, Standard and High and
\* writes the file with the bitrate and frame rate the table gives for it:
\* 1000k / 24 fps, 2500k / 30 fps, 5000k / 60 fps
C16_QualityTable ==
    (EEnded /\ Exported /\ e_quality \in DOMAIN ClaimedSettings) =>
        /\ e_failed # "export"
        /\ e_settings # <<>>
        /\ \A k \in 1..Len(e_settings) :
              e_settings[k] = ClaimedSettings[e_quality]

\* C17: for all four templates the video apply_template returns carries
\* exactly one audio track, the audio argument itself, whole
C17_OneAudioTrack ==
    pc = "done" => video.audio = <<"audio">>

C17_Witness ==
    /\ tpl = "AIDynamic" /\ pc = "done"
    /\ Len(clips) = 2
    /\ video.audio = <<"audio">>

\* C18: apply_template never changes the caller's clip list, whether it
\* returns or raises, for all four templates
C18_ClipsUntouched == [][clips' = clips]_vars

C18_Witness ==
    /\ tpl = "AIDynamic" /\ pc = "outro"
    /\ Len(clips) = 2
    /\ Len(processed) = 2

\* the title window of each template, as the title claim gives it
TitleWindow ==
    [t \in {"Modern", "Minimal", "Dynamic"} |->
        IF t = "Minimal" THEN Sec(2) ELSE Sec(3)]

WaitsForOwnLock ==
    /\ c_fn = "clear_expired"
    /\ c_pc = "save"
    /\ c_lock = "clear_expired"

\* C20: clear_expired on a document that holds an expired entry terminates
\* (it never blocks on the class-level lock), and when it has returned every
\* entry that was expired is cleared and every other entry is as it was
C20_ClearExpiredTerminates ==
    (c_fn = "clear_expired"
        /\ \E k \in 1..MaxKeys : Expired(c_snapshot[k], c_now)) =>
        /\ ~WaitsForOwnLock
        /\ c_pc = "returned" =>
              \A k \in 1..MaxKeys :
                  c_doc[k] = IF Expired(c_snapshot[k], c_now)
                             THEN None ELSE c_snapshot[k]

\* C21: once create_content(t) has returned a manager with id x,
\* get_content(x, t) returns a ContentManager, get_content(x, t2) with
\* another type returns None, and get_content of an id never created
\* returns None
C21_GetAfterCreate ==
    k_call.op = "get_content" =>
        (k_call.result = "manager" <=> k_made[k_call.id] = k_call.type)

GotFresh == c_fn = "get_if_fresh" /\ c_pc \in {"returned", "raised"}

\* the entry get_if_fresh was asked for, as it was stored when the call began
\* (the call changes it only by clearing it once found expired)
Asked == IF c_result = "CacheExpiredError" THEN "expired"
         ELSE IF c_doc[c_arg] = None THEN "missing"
         ELSE IF Expired(c_doc[c_arg], c_now) THEN "expired"
         ELSE "fresh"

\* C22: get_if_fresh returns the stored data when the entry is fresh or has
\* no expiry, and returns None when the entry is missing or older than its
\* expiry; it never returns data older than its expiry
C22_FreshOrNone ==
    (GotFresh /\ c_exists) =>
        /\ c_pc = "returned"
        /\ c_result = IF Asked = "fresh" THEN "data" ELSE "None"

NEnded(t) == n_thread[t].pc \in {"done", "raised"}

\* the threads constructing with create=True for the id
Creators(i) == {t \in Threads : n_thread[t].create /\ n_thread[t].document_id = i}

Succeeded(i) == {t \in Creators(i) : n_thread[t].pc = "done"}

\* of the constructions with create=True for one id, once all have ended,
\* exactly one has succeeded when the id was new and none otherwise, every
\* other has raised DatabaseError; the collection holds what it held before
\* and one document for each success, never two of one id
OneCreator ==
    \A i \in DocumentIds :
        /\ n_coll[i] <= 1
        /\ n_coll[i] = n_before[i] + Cardinality(Succeeded(i))
        /\ (Creators(i) # {} /\ \A t \in Creators(i) : NEnded(t)) =>
              /\ Cardinality(Succeeded(i)) = 1 - n_before[i]
              /\ \A t \in Creators(i) \ Succeeded(i) :
                    n_thread[t].result = "DatabaseError"

Original(key) ==
    CASE key = "output_dir" -> g_original.output_dir
      [] key = "video.fps" -> g_original.video.fps
      [] key = "api.pexels" -> g_original.api.pexels

\* C26: after any sequence of set calls, reset() restores the defaults:
\* get(k) is then the original default value of every key k, nested ones
\* included
C26_ResetRestores ==
    g_call = "reset" => \A key \in ConfigKeys : get(key) = Original(key)

\* C28: get_style_model returns None only when the whole chain of the style
\* has been gone through without a model; a failed load is never stored in
\* loaded_models, so that no later call returns it as a cached model
C28_NoneOnlyWhenAllFailed ==
    /\ \A e \in s_loaded : e.value # "None"
    /\ (s_pc = "returned" /\ s_result = "None") =>
          s_idx > Len(StyleChain(s_style))

GetModel == f_fn = "get_model"

\* the call has loaded model j and the load failed
LoadFailed(j) ==
    \E k \in DOMAIN f_calls : f_calls[k] = [model |-> j, loaded |-> FALSE]

\* the chain is walked in order: every model before the one the loop is at
\* was loaded in this call, without success, and without force_reload was
\* not in loaded_models
WalkedInOrder ==
    \A j \in 1..(f_idx - 1) :
        /\ LoadFailed(j)
        /\ ~f_force => j \notin f_loaded

\* the model returned is the one the loop is at; it is in loaded_models, and
\* it was found there or is the last load of the call, which succeeded
ReturnedFirst ==
    /\ f_idx \in 1..ChainLength(f_type)
    /\ f_idx \in f_loaded
    /\ \/ ~f_force /\ \A k \in DOMAIN f_calls : f_calls[k].model # f_idx
       \/ /\ f_calls # <<>>
          /\ f_calls[Len(f_calls)] = [model |-> f_idx, loaded |-> TRUE]

\* C27: get_model walks the chain in order and returns the first model that
\* is in loaded_models or loads, recorded in loaded_models; it returns None
\* only when every model of the chain failed to load in the call; without
\* force_reload a model in loaded_models is not loaded again
C27_FirstThatLoads ==
    /\ [](GetModel =>
            /\ WalkedInOrder
            /\ f_outcome.value = "pipeline" => ReturnedFirst
            /\ f_outcome.value = "None" =>
                  \A j \in 1..ChainLength(f_type) : LoadFailed(j))
    /\ [][(GetModel /\ ~f_force /\ f_calls' # f_calls) =>
             f_idx \notin f_loaded]_vars

\* get_model has returned a model after a load that failed
C27_Witness ==
    /\ GetModel /\ f_pc = "returned"
    /\ f_outcome.value = "pipeline"
    /\ LoadFailed(1)

\* a call of synthesize is made with valid arguments
CallMade == v_calls' # v_calls /\ ~Invalid(v_call'.text, v_call'.voice_id)

\* the cache holds an unexpired entry whose file is there and not empty
Fresh ==
    /\ v_cache.kind = "entry"
    /\ ~(v_cache.expiry # 0 /\ v_now - v_cache.timestamp > v_cache.expiry)
    /\ v_files[v_cache.data] = "audio"

QuotaMessages == {"quota exceeded", "Quota Exceeded", "API QUOTA EXCEEDED today"}

\* C25: an exception that escapes synthesize is VoiceGenerationError,
\* VoiceQuotaError, AudioProcessingError or AudioFileError; a failure of
\* generate_voice is VoiceQuotaError when its message contains "quota
\* exceeded" in any letter case and VoiceGenerationError otherwise; invalid
\* text or voice_id is AudioProcessingError, generate_voice not invoked
C25_FourErrors ==
    v_calls > 0 =>
        /\ v_call.outcome \in Paths \cup {"VoiceGenerationError", "VoiceQuotaError",
                                         "AudioProcessingError", "AudioFileError"}
        /\ v_call.message # "none" =>
              v_call.outcome = IF v_call.message \in QuotaMessages
                               THEN "VoiceQuotaError"
                               ELSE "VoiceGenerationError"
        /\ Invalid(v_call.text, v_call.voice_id) =>
              v_call.outcome = "AudioProcessingError" /\ ~v_call.generated

\* generate_voice has failed with the message "Quota Exceeded"
C25_Witness ==
    /\ v_calls > 0
    /\ v_call.message = "Quota Exceeded"
    /\ v_call.outcome = "VoiceQuotaError"

====
